---- MODULE Spec2Model ----
(***************************************************************************)
(* A model of the s3x-explorer core: the object store as the extension     *)
(* sees it through the S3 API, the retry wrapper, the bulk folder          *)
(* operations (delete, move, rename, cut/paste, drag-and-drop) and the     *)
(* tree explorer's findNode.                                               *)
(*                                                                         *)
(* Strings are sequences of character codes (code points), so that         *)
(* substring, startsWith, endsWith, split and concatenation are computed   *)
(* as the code computes them.  "/" is code 47; the listing order of the    *)
(* store is the order of the code points, as in S3.                        *)
(***************************************************************************)
EXTENDS Integers, Sequences, FiniteSets, TLC

VARIABLES
    store,      \* bucket name -> the bucket's objects, sorted by key
    cache,      \* the pagination cache: scope -> entry
    run,        \* the bulk operation in progress (a handler's locals and position)
    retry,      \* one withRetry invocation in progress
    find,       \* one findNode invocation in progress
    twin,       \* a second bucket state and run, driven by the same call outcomes
    view,       \* the explorer: its filter and the outcome of the last tree request
    command,    \* the create-folder or command command in progress
    lister,     \* one listAllObjectsRecursive invocation in progress, page by page
    client,     \* the settings, the cached S3 client and the last getS3Client call
    upload,     \* one uploadFile invocation in progress
    clipboard   \* the item of the last Copy or Cut command

vars ==
    <<store, cache, run, retry, find, twin, view, command, lister, client, upload, clipboard>>

-----------------------------------------------------------------------------
(* Strings *)

Slash == 47

EmptyStr == << >>

Min2(a, b) == IF a <= b THEN a ELSE b

\* a.startsWith(p)
StartsWith(s, p) == Len(p) <= Len(s) /\ SubSeq(s, 1, Len(p)) = p

\* s.endsWith("/")
EndsWithSlash(s) == Len(s) > 0 /\ s[Len(s)] = Slash

\* s.substring(n)
Substring(s, n) == SubSeq(s, n + 1, Len(s))

\* s.slice(0, -1)
DropLast(s) == SubSeq(s, 1, Len(s) - 1)

\* The order of keys in a listing: code point by code point, a proper prefix first.
LexLess(a, b) ==
    LET n == Min2(Len(a), Len(b))
        d == {i \in 1..n : a[i] # b[i]}
    IN  IF d = {} THEN Len(a) < Len(b)
        ELSE LET i == CHOOSE j \in d : \A k \in d : j <= k IN a[i] < b[i]

\* The positions of "/" in s.
SlashPositions(s) == {i \in 1..Len(s) : s[i] = Slash}

MaxOf(S) == CHOOSE x \in S : \A y \in S : y <= x
MinOf(S) == CHOOSE x \in S : \A y \in S : x <= y

\* s.split("/").pop(): what follows the last "/".
LastSegment(s) ==
    IF SlashPositions(s) = {} THEN s ELSE Substring(s, MaxOf(SlashPositions(s)))

\* s.split("/")
RECURSIVE Split(_)
Split(s) ==
    IF SlashPositions(s) = {} THEN <<s>>
    ELSE LET i == MinOf(SlashPositions(s))
         IN  <<SubSeq(s, 1, i - 1)>> \o Split(Substring(s, i))

\* parts.join("/")
RECURSIVE Join(_)
Join(parts) ==
    IF Len(parts) = 0 THEN EmptyStr
    ELSE IF Len(parts) = 1 THEN parts[1]
    ELSE parts[1] \o <<Slash>> \o Join(Tail(parts))

NonEmptyPart(p) == p # EmptyStr

\* segment.replace(/^\/+|\/+$/g, "")
StripSlashes(s) ==
    LET keep == {i \in 1..Len(s) : s[i] # Slash}
    IN  IF keep = {} THEN EmptyStr ELSE SubSeq(s, MinOf(keep), MaxOf(keep))

\* s.replace(/\/+/g, "/")
CollapseSlashes(s) ==
    LET idx  == [i \in 1..Len(s) |-> i]
        Keep(i) == ~(s[i] = Slash /\ i > 1 /\ s[i - 1] = Slash)
        kept == SelectSeq(idx, Keep)
    IN  [j \in 1..Len(kept) |-> s[kept[j]]]

\* joinPath(a, b)
joinPath(a, b) ==
    LET segs == SelectSeq(<<a, b>>, NonEmptyPart)
        strp == [i \in 1..Len(segs) |-> StripSlashes(segs[i])]
    IN  CollapseSlashes(Join(strp))

\* getFileName(key): normalizeKey, then the last segment
normalizeKey(key) == IF Len(key) > 0 /\ key[1] = Slash THEN Substring(key, 1) ELSE key

getFileName(key) == LastSegment(normalizeKey(key))

\* prefix.endsWith("/") ? prefix.slice(0, -1).split("/").pop() : prefix.split("/").pop()
sourceFolderName(prefix) ==
    IF EndsWithSlash(prefix) THEN LastSegment(DropLast(prefix)) ELSE LastSegment(prefix)

\* targetPrefix ? joinPath(targetPrefix, name) + "/" : name + "/"
targetFolderPrefix(targetPrefix, srcPrefix) ==
    IF targetPrefix # EmptyStr
    THEN joinPath(targetPrefix, sourceFolderName(srcPrefix)) \o <<Slash>>
    ELSE sourceFolderName(srcPrefix) \o <<Slash>>

\* targetPrefix ? joinPath(targetPrefix, fileName) : fileName
targetFileKey(targetPrefix, key) ==
    IF targetPrefix # EmptyStr THEN joinPath(targetPrefix, getFileName(key))
    ELSE getFileName(key)

\* handleRenameFolder: the old prefix with its last folder name replaced
renamedPrefix(oldPrefix, newFolderName) ==
    LET parts == SelectSeq(Split(oldPrefix), NonEmptyPart)
        repl  == [i \in 1..Len(parts) |-> IF i = Len(parts) THEN newFolderName ELSE parts[i]]
    IN  Join(repl) \o <<Slash>>

-----------------------------------------------------------------------------
(* Errors: what client.send throws, and the S3Error the operations rethrow *)

NoStatus == 0       \* a status or $metadata that is absent (undefined)
NoCode == ""        \* a code that is absent (undefined)

\* An error as thrown by the SDK client: an optional code and the HTTP status of
\* $metadata (absent for a DNS or connection failure, which carries a Node code).
RawError(code, status) ==
    [code |-> code, meta |-> status, statusCode |-> NoStatus, retryable |-> FALSE]

RawErrors ==
    { RawError("AccessDenied", 403), RawError(NoCode, 403), RawError(NoCode, 401),
      RawError("NoSuchKey", 404), RawError("NoSuchBucket", 404), RawError(NoCode, 400),
      RawError("TooManyRequests", 429), RawError(NoCode, 429),
      RawError(NoCode, 500), RawError("ServiceUnavailable", 503), RawError(NoCode, 503),
      RawError("ENOTFOUND", NoStatus), RawError("ECONNREFUSED", NoStatus) }

\* The spec's error taxonomy, by what the storage service answered.
IsNetworkError(e) == e.meta = NoStatus
IsRateLimit(e)    == e.meta = 429
IsServiceError(e) == e.meta >= 500 /\ e.meta < 600
IsClientError(e)  == e.meta >= 400 /\ e.meta < 500 /\ e.meta # 429

\* The mutant of S3Error.isRetryable that calls every HTTP error retryable.
isRetryableAnyStatus(e) ==
    \/ e.code = "TooManyRequests"
    \/ e.meta # NoStatus \/ e.statusCode # NoStatus

\* S3Error.isRetryable(error): the code, or $metadata.httpStatusCode.  An absent
\* $metadata makes both status comparisons false.
isRetryable(e) ==
    \/ e.code = "TooManyRequests"
    \/ e.meta = 429
    \/ (e.meta >= 500 /\ e.meta < 600)

\* S3Error.isAuthError(error)
isAuthError(e) ==
    \/ e.code = "Forbidden" \/ e.code = "Unauthorized"
    \/ e.meta = 403 \/ e.meta = 401

\* new S3Error(message, code, statusCode, retryable): it has no $metadata.
S3Error(code, statusCode, retryable) ==
    [code |-> code, meta |-> NoStatus, statusCode |-> statusCode, retryable |-> retryable]

\* The catch block of each wrapped operation.
RetryOps == {"listBuckets", "listObjects", "getObject", "deleteObject", "copyObject"}

WrapError(op, e) ==
    IF op = "listBuckets"
    THEN LET statusCode == IF e.meta # NoStatus THEN e.meta ELSE e.statusCode
         IN  IF statusCode = 404 THEN S3Error(e.code, statusCode, FALSE)
             ELSE S3Error(e.code, statusCode, isRetryable(e))
    ELSE IF op = "listObjects" /\ e.code = "NoSuchBucket"
    THEN S3Error(e.code, e.meta, FALSE)
    ELSE IF op = "getObject" /\ (e.code = "NoSuchKey" \/ e.code = "NotFound" \/ e.meta = 404)
    THEN S3Error(IF e.code # NoCode THEN e.code ELSE "NoSuchKey", e.meta, FALSE)
    ELSE S3Error(e.code, e.meta, isRetryable(e))

-----------------------------------------------------------------------------
(* withRetry *)

maxRetries == 3
baseDelay == 1000

RECURSIVE Pow2(_)
Pow2(n) == IF n = 0 THEN 1 ELSE 2 * Pow2(n - 1)

\* A delay that grows by baseDelay with each attempt.
BackoffDelayLinear(attempt) == baseDelay * (attempt + 1)

\* const delay = baseDelay * Math.pow(2, attempt)
BackoffDelay(attempt) == baseDelay * Pow2(attempt)

\* if (attempt === maxRetries || !S3Error.isRetryable(error)) break;
GivesUp(attempt, error) == attempt = maxRetries \/ ~isRetryable(error)

NoError == [code |-> NoCode, meta |-> NoStatus, statusCode |-> NoStatus, retryable |-> FALSE]

IdleRetry ==
    [pc |-> "idle", op |-> "none", attempt |-> 0, responses |-> << >>,
     delays |-> << >>, lastError |-> NoError]

\* The response of a call that succeeds.
OkResponse == [code |-> NoCode, meta |-> 200, statusCode |-> NoStatus, retryable |-> FALSE]

StartRetry(op) ==
    [pc |-> "invoke", op |-> op, attempt |-> 0, responses |-> << >>,
     delays |-> << >>, lastError |-> NoError]

\* return await operation(): the operation settles with a result ...
RetryInvokeOk ==
    /\ retry.pc = "invoke"
    /\ retry' = [retry EXCEPT !.pc = "returned", !.responses = Append(@, OkResponse)]
    /\ UNCHANGED <<store, cache, run, find, twin, view, command, lister, client, upload, clipboard>>

\* ... or throws: the catch block of withRetry either gives up or starts the delay.
RetryInvokeThrows ==
    /\ retry.pc = "invoke"
    /\ \E raw \in RawErrors :
         LET error == WrapError(retry.op, raw)
         IN  retry' = [retry EXCEPT
                 !.responses = Append(@, raw),
                 !.lastError = error,
                 !.pc = IF GivesUp(retry.attempt, error) THEN "raised" ELSE "sleep",
                 !.delays = IF GivesUp(retry.attempt, error) THEN @
                            ELSE Append(@, BackoffDelay(retry.attempt))]
    /\ UNCHANGED <<store, cache, run, find, twin, view, command, lister, client, upload, clipboard>>

\* The timer of the backoff delay fires: attempt++ and the loop goes round.
RetryBackoffDone ==
    /\ retry.pc = "sleep"
    /\ retry' = [retry EXCEPT !.pc = "invoke", !.attempt = @ + 1]
    /\ UNCHANGED <<store, cache, run, find, twin, view, command, lister, client, upload, clipboard>>

\* A wrapped operation is called: withRetry(operation) with the default arguments.
RetryCall ==
    /\ retry.pc = "idle"
    /\ \E op \in RetryOps : retry' = StartRetry(op)
    /\ UNCHANGED <<store, cache, run, find, twin, view, command, lister, client, upload, clipboard>>

RetryNext == RetryCall \/ RetryInvokeOk \/ RetryInvokeThrows \/ RetryBackoffDone

-----------------------------------------------------------------------------
(* The object store behind the S3 API.  A bucket is the sequence of its       *)
(* objects [key, data] in key order; data identifies an object's content.     *)

Buckets == {"b1", "b2"}

Obj(key, data) == [key |-> key, data |-> data]

KeysOf(objs) == {objs[i].key : i \in 1..Len(objs)}

HasKey(objs, k) == \E i \in 1..Len(objs) : objs[i].key = k

DataOf(objs, k) == objs[CHOOSE i \in 1..Len(objs) : objs[i].key = k].data

\* PutObject / the destination side of CopyObject: create or overwrite key k.
PutKey(objs, k, d) ==
    LET Before(e) == LexLess(e.key, k)
        After(e)  == LexLess(k, e.key)
    IN  SelectSeq(objs, Before) \o <<Obj(k, d)>> \o SelectSeq(objs, After)

\* DeleteObject / DeleteObjects: the keys of K that exist are removed.
DelKeys(objs, K) ==
    LET Stays(e) == e.key \notin K IN SelectSeq(objs, Stays)

EmptyMarkerData == 0    \* the content of a zero-byte folder marker

\* ListObjectsV2 without Delimiter: the keys that begin with prefix and follow
\* the continuation token, at most maxKeys of them, in key order.
ListFlatPage(objs, prefix, token, maxKeys) ==
    LET Hit(e) == StartsWith(e.key, prefix) /\ (token = EmptyStr \/ LexLess(token, e.key))
        Page(hits, n) ==
            [contents    |-> [i \in 1..n |-> hits[i].key],
             isTruncated |-> Len(hits) > n,
             nextToken   |-> IF Len(hits) > n /\ n > 0 THEN hits[n].key ELSE EmptyStr]
        First(hits) == Page(hits, Min2(maxKeys, Len(hits)))
    IN  First(SelectSeq(objs, Hit))

MAX_KEYS_PER_REQUEST == 1000

NoMax == -1      \* maxObjects left undefined

\* The truth value of "maxObjects" in a condition: undefined and 0 are false.
IsSetMax(maxObjects) == maxObjects # NoMax /\ maxObjects # 0

\* listAllObjectsRecursive(bucket, prefix, maxObjects): the do-while loop over the
\* pages, from the state (allObjects, continuationToken, totalFetched).
RECURSIVE ListAllLoop(_, _, _, _, _)
ListAllLoop(objs, prefix, maxObjects, allObjects, continuationToken) ==
    LET totalFetched == Len(allObjects)
        pageSize  == IF IsSetMax(maxObjects)
                     THEN Min2(MAX_KEYS_PER_REQUEST, maxObjects - totalFetched)
                     ELSE MAX_KEYS_PER_REQUEST
        NotThePrefix(k) == k # prefix
        Continue(all, nextToken) ==
            IF IsSetMax(maxObjects) /\ Len(all) >= maxObjects THEN all
            ELSE IF nextToken # EmptyStr
            THEN ListAllLoop(objs, prefix, maxObjects, all, nextToken)
            ELSE all
        Received(response) ==
            Continue(allObjects \o SelectSeq(response.contents, NotThePrefix),
                     response.nextToken)
    IN  Received(ListFlatPage(objs, prefix, continuationToken, pageSize))

listAllObjectsRecursive(objs, prefix, maxObjects) ==
    ListAllLoop(objs, prefix, maxObjects, << >>, EmptyStr)

-----------------------------------------------------------------------------
(* Bulk operations: the handlers of delete, move, rename, paste and drop.     *)
(* A run is one handler invocation: its arguments, its locals, its position   *)
(* (pc) between two awaited calls, and the log of the calls it has issued.    *)
(* A call here is one call of an ops.ts / listing.ts function; the attempts   *)
(* withRetry makes inside it are modelled by the retry actions above.         *)

batchSize == 1000

MoveKinds == {"moveFolder", "rename", "pasteCut", "drop", "moveFile"}

\* Which handlers delete the source (all but the paste of a copied folder).
DeletesSource(kind) == kind \in MoveKinds

\* The mutant of CreatesTargetMarker in which the Move command creates the marker.
CreatesTargetMarkerAlsoOnMove(kind) == kind \in {"pasteCut", "pasteCopy", "drop", "moveFolder"}

\* Which handlers create the destination folder marker after a non-empty folder
\* was processed: paste and drop do, the Move command and rename do not.
CreatesTargetMarker(kind) == kind \in {"pasteCut", "pasteCopy", "drop"}

\* Which handlers report progress before each unit.
ReportsUnits(kind) == kind \in {"delete", "moveFolder", "rename", "pasteCut", "pasteCopy"}

NoBucket == ""

Ev(t, bucket, key, tb, tk, keys, ok, phase) ==
    [t |-> t, bucket |-> bucket, key |-> key, tb |-> tb, tk |-> tk, keys |-> keys,
     ok |-> ok, phase |-> phase, unit |-> 0, total |-> 0, errors |-> {}]

ProgressEv(unit, total) ==
    [t |-> "progress", bucket |-> NoBucket, key |-> EmptyStr, tb |-> NoBucket,
     tk |-> EmptyStr, keys |-> << >>, ok |-> TRUE, phase |-> "report",
     unit |-> unit, total |-> total, errors |-> {}]

IsCall(e) == e.t # "progress"

\* The remote calls of a log, without the progress reports.
Calls(log) == SelectSeq(log, IsCall)

IdleRun ==
    [kind |-> "none", srcBucket |-> NoBucket, src |-> EmptyStr, dstBucket |-> NoBucket,
     dst |-> EmptyStr, pc |-> "idle", objects |-> << >>, i |-> 0, remaining |-> << >>,
     j |-> 0, log |-> << >>, failures |-> 0, starts |-> 0, orig |-> << >>]

\* The objects under the source prefix (or the one source object of a file move),
\* as they are when the operation is first started.
OrigObjects(st, kind, sb, src) ==
    LET Under(e) == IF kind = "moveFile" THEN e.key = src
                    ELSE StartsWith(e.key, src) /\ e.key # src
    IN  SelectSeq(st[sb], Under)

\* A handler is entered: a folder handler first lists, a file move calls moveObject.
StartRun(kind, sb, src, db, dst, st) ==
    [IdleRun EXCEPT !.kind = kind, !.srcBucket = sb, !.src = src, !.dstBucket = db,
                    !.dst = dst, !.starts = 1,
                    !.pc = IF kind = "moveFile" THEN "copy" ELSE "list",
                    !.objects = IF kind = "moveFile" THEN <<src>> ELSE << >>,
                    !.orig = OrigObjects(st, kind, sb, src)]

Result(r, st) == [run |-> r, store |-> st]

Logged(r, evs) == [r EXCEPT !.log = @ \o evs]

Failed(r, evs) == [Logged(r, evs) EXCEPT !.pc = "failed", !.failures = @ + 1]

CeilDiv(a, b) == (a + b - 1) \div b

\* The mutant of totalBatches that rounds down.
totalBatchesRoundedDown(r) == Len(r.objects) \div batchSize

\* const totalBatches = Math.ceil(objects.length / batchSize)
totalBatches(r) == CeilDiv(Len(r.objects), batchSize)

\* objects.slice(i * batchSize, Math.min(i * batchSize + batchSize, objects.length))
batchKeys(r) ==
    SubSeq(r.objects, r.i * batchSize + 1, Min2(r.i * batchSize + batchSize, Len(r.objects)))

\* obj.key.substring(prefix.length), appended to the target folder prefix
targetKeyOf(r, key) ==
    IF r.kind = "moveFile" THEN r.dst ELSE r.dst \o Substring(key, Len(r.src))

\* The first index >= j of a key ending in "/" (0: none): the cleanup loop skips
\* the other keys without a call.
NextMarker(keys, j) ==
    LET m == {k \in j..Len(keys) : EndsWithSlash(keys[k])}
    IN  IF m = {} THEN 0 ELSE MinOf(m)

\* The position after the per-object loop of a copy/move handler.
AfterLoopPc(kind) ==
    IF kind = "moveFile" THEN "done"
    ELSE IF CreatesTargetMarker(kind) THEN "mkdst"
    ELSE IF DeletesSource(kind) THEN "relist"
    ELSE "done"

\* const objects = await listAllObjectsRecursive(bucket, prefix)
ListStep(r, st, ok) ==
    LET ev == Ev("list", r.srcBucket, r.src, NoBucket, EmptyStr, << >>, ok, "listing")
        Listed_(objects) ==
            Result([Logged(r, <<ev>>) EXCEPT
                       !.objects = objects, !.i = 0,
                       !.pc = IF Len(objects) = 0
                              THEN (IF r.kind = "delete" THEN "emptyMarker" ELSE "emptyCreate")
                              ELSE (IF r.kind = "delete" THEN "batch" ELSE "copy")],
                   st)
    IN  IF ~ok THEN Result(Failed(r, <<ev>>), st)
        ELSE Listed_(listAllObjectsRecursive(st[r.srcBucket], r.src, NoMax))

\* handleDelete, empty folder: await deleteObject(bucket, prefix), outside any try.
EmptyMarkerStep(r, st, ok) ==
    LET ev == Ev("delete", r.srcBucket, r.src, NoBucket, EmptyStr, << >>, ok, "empty")
    IN  IF ~ok THEN Result(Failed(r, <<ev>>), st)
        ELSE Result([Logged(r, <<ev>>) EXCEPT !.pc = "done"],
                    [st EXCEPT ![r.srcBucket] = DelKeys(@, {r.src})])

\* The mutant of AfterBatchPc that carries on with the next batch after a failure.
AfterBatchPcContinuing(r, res) ==
    IF r.i + 1 < totalBatches(r) THEN "batch" ELSE "marker"

\* handleDelete's loop: deleteObjects throws on any failure (an HTTP error, or a
\* response that lists per-key errors) and nothing in the loop catches it.
AfterBatchPc(r, res) ==
    IF res # "ok" THEN "failed"
    ELSE IF r.i + 1 < totalBatches(r) THEN "batch" ELSE "marker"

\* One pass of the batch loop: the progress report, then await deleteObjects(bucket,
\* keys).  res is "ok", "fail" (the request failed: nothing deleted) or "partial"
\* (the response lists the keys of bad as errors: the other keys are deleted).
BatchStep(r, st, res, bad) ==
    LET keys == batchKeys(r)
        pe == ProgressEv(r.i + 1, totalBatches(r))
        ev == [Ev("deleteBatch", r.srcBucket, EmptyStr, NoBucket, EmptyStr, keys,
                  res = "ok", "processing")
                  EXCEPT !.unit = r.i + 1, !.errors = IF res = "partial" THEN bad ELSE {}]
        gone == IF res = "ok" THEN {keys[k] : k \in 1..Len(keys)}
                ELSE IF res = "partial" THEN {keys[k] : k \in 1..Len(keys)} \ bad
                ELSE {}
        pc2 == AfterBatchPc(r, res)
    IN  Result([Logged(r, <<pe, ev>>) EXCEPT
                   !.pc = pc2,
                   !.i = IF pc2 = "failed" THEN @ ELSE @ + 1,
                   !.failures = IF res = "ok" THEN @ ELSE @ + 1],
               [st EXCEPT ![r.srcBucket] = DelKeys(@, gone)])

\* handleDelete, after the batches: try { await deleteObject(bucket, prefix) } catch {}
MarkerStep(r, st, ok) ==
    LET ev == Ev("delete", r.srcBucket, r.src, NoBucket, EmptyStr, << >>, ok, "marker")
    IN  Result([Logged(r, <<ev>>) EXCEPT !.pc = "done",
                                      !.failures = IF ok THEN @ ELSE @ + 1],
               IF ok THEN [st EXCEPT ![r.srcBucket] = DelKeys(@, {r.src})] ELSE st)

\* createFolder(bucket, prefix): putObject of the prefix with a trailing slash and
\* an empty body.
folderKey(prefix) == IF EndsWithSlash(prefix) THEN prefix ELSE prefix \o <<Slash>>

\* Copy/move handlers, empty source folder: await createFolder(target), outside any
\* try; a cut/move then deletes the source marker.
EmptyCreateStep(r, st, ok) ==
    LET ev == Ev("put", r.dstBucket, folderKey(r.dst), NoBucket, EmptyStr, << >>, ok, "empty")
    IN  IF ~ok THEN Result(Failed(r, <<ev>>), st)
        ELSE Result([Logged(r, <<ev>>) EXCEPT
                        !.pc = IF DeletesSource(r.kind) THEN "emptyDelete" ELSE "done"],
                    [st EXCEPT ![r.dstBucket] = PutKey(@, folderKey(r.dst), EmptyMarkerData)])

\* await deleteObject(bucket, prefix) of the empty source folder, outside any try.
EmptyDeleteStep(r, st, ok) ==
    LET ev == Ev("delete", r.srcBucket, r.src, NoBucket, EmptyStr, << >>, ok, "empty")
    IN  IF ~ok THEN Result(Failed(r, <<ev>>), st)
        ELSE Result([Logged(r, <<ev>>) EXCEPT !.pc = "done"],
                    [st EXCEPT ![r.srcBucket] = DelKeys(@, {r.src})])

\* The position after a per-object unit is complete.
NextUnitPc(r) == IF r.i + 1 < Len(r.objects) THEN "copy" ELSE AfterLoopPc(r.kind)

\* The mutant of AfterCopyPc in which moveObject deletes whatever the copy did.
AfterCopyPcIgnoringFailure(r, ok) ==
    IF DeletesSource(r.kind) THEN "delete" ELSE NextUnitPc(r)

\* A loop that skips an object whose copy was rejected and goes on with the next.
AfterCopyPcSkippingFailed(r, ok) ==
    IF ~ok THEN NextUnitPc(r)
    ELSE IF DeletesSource(r.kind) THEN "delete" ELSE NextUnitPc(r)

\* moveObject: await copyObject(...); await deleteObject(...).  A rejected copy
\* leaves moveObject, the loop and the handler; a copy-only paste goes on to the
\* next object.
AfterCopyPc(r, ok) ==
    IF ~ok THEN "failed"
    ELSE IF DeletesSource(r.kind) THEN "delete" ELSE NextUnitPc(r)

\* The loop head and the first half of the unit: the progress report (where the
\* handler makes one), then await copyObject(srcBucket, key, dstBucket, targetKey).
CopyStep(r, st, ok) ==
    LET key == r.objects[r.i + 1]
        tk  == targetKeyOf(r, key)
        pe  == IF ReportsUnits(r.kind) THEN <<ProgressEv(r.i + 1, Len(r.objects))>> ELSE << >>
        ev  == [Ev("copy", r.srcBucket, key, r.dstBucket, tk, << >>, ok, "processing")
                   EXCEPT !.unit = r.i + 1]
        pc2 == AfterCopyPc(r, ok)
    IN  Result([Logged(r, pe \o <<ev>>) EXCEPT
                   !.pc = pc2,
                   !.i = IF pc2 \in {"delete", "failed"} THEN @ ELSE @ + 1,
                   !.failures = IF ok THEN @ ELSE @ + 1],
               IF ok THEN [st EXCEPT ![r.dstBucket] = PutKey(@, tk, DataOf(st[r.srcBucket], key))]
               ELSE st)

\* The second half of moveObject: await deleteObject(srcBucket, key).
DeleteStep(r, st, ok) ==
    LET key == r.objects[r.i + 1]
        ev  == [Ev("delete", r.srcBucket, key, NoBucket, EmptyStr, << >>, ok, "processing")
                   EXCEPT !.unit = r.i + 1]
    IN  IF ~ok THEN Result(Failed(r, <<ev>>), st)
        ELSE Result([Logged(r, <<ev>>) EXCEPT !.pc = NextUnitPc(r), !.i = @ + 1],
                    [st EXCEPT ![r.srcBucket] = DelKeys(@, {key})])

\* Paste and drop, after the loop: try { await createFolder(target) } catch {}
MkDstStep(r, st, ok) ==
    LET ev == Ev("put", r.dstBucket, folderKey(r.dst), NoBucket, EmptyStr, << >>, ok, "finalizing")
    IN  Result([Logged(r, <<ev>>) EXCEPT
                   !.pc = IF DeletesSource(r.kind) THEN "relist" ELSE "done",
                   !.failures = IF ok THEN @ ELSE @ + 1],
               IF ok THEN [st EXCEPT ![r.dstBucket] = PutKey(@, folderKey(r.dst), EmptyMarkerData)]
               ELSE st)

\* const remainingObjects = await listAllObjectsRecursive(bucket, prefix), outside
\* any try.
RelistStep(r, st, ok) ==
    LET ev == Ev("list", r.srcBucket, r.src, NoBucket, EmptyStr, << >>, ok, "cleanup")
        Remaining(remaining, j1) ==
            Result([Logged(r, <<ev>>) EXCEPT
                       !.remaining = remaining, !.j = j1,
                       !.pc = IF j1 = 0 THEN "main" ELSE "cleanup"],
                   st)
        Relisted(remaining) == Remaining(remaining, NextMarker(remaining, 1))
    IN  IF ~ok THEN Result(Failed(r, <<ev>>), st)
        ELSE Relisted(listAllObjectsRecursive(st[r.srcBucket], r.src, NoMax))

\* A cleanup loop without the try around the deletion of a marker.
CleanupStepFatal(r, st, ok) ==
    LET key == r.remaining[r.j]
        ev == Ev("delete", r.srcBucket, key, NoBucket, EmptyStr, << >>, ok, "cleanup")
        j1 == NextMarker(r.remaining, r.j + 1)
    IN  IF ~ok THEN Result(Failed(r, <<ev>>), st)
        ELSE Result([Logged(r, <<ev>>) EXCEPT
                        !.j = j1, !.pc = IF j1 = 0 THEN "main" ELSE "cleanup"],
                    [st EXCEPT ![r.srcBucket] = DelKeys(@, {key})])

\* for (obj of remainingObjects) if (obj.key.endsWith("/"))
\*     try { await deleteObject(bucket, obj.key) } catch {}
CleanupStep(r, st, ok) ==
    LET key == r.remaining[r.j]
        ev == Ev("delete", r.srcBucket, key, NoBucket, EmptyStr, << >>, ok, "cleanup")
        j1 == NextMarker(r.remaining, r.j + 1)
    IN  Result([Logged(r, <<ev>>) EXCEPT
                   !.j = j1, !.pc = IF j1 = 0 THEN "main" ELSE "cleanup",
                   !.failures = IF ok THEN @ ELSE @ + 1],
               IF ok THEN [st EXCEPT ![r.srcBucket] = DelKeys(@, {key})] ELSE st)

\* try { await deleteObject(bucket, prefix) } catch {}: the main folder marker.
MainStep(r, st, ok) ==
    LET ev == Ev("delete", r.srcBucket, r.src, NoBucket, EmptyStr, << >>, ok, "main")
    IN  Result([Logged(r, <<ev>>) EXCEPT !.pc = "done",
                                      !.failures = IF ok THEN @ ELSE @ + 1],
               IF ok THEN [st EXCEPT ![r.srcBucket] = DelKeys(@, {r.src})] ELSE st)

\* The awaited call at the run's position, with its outcome.
Step(r, st, ok) ==
    CASE r.pc = "list"        -> ListStep(r, st, ok)
      [] r.pc = "emptyMarker" -> EmptyMarkerStep(r, st, ok)
      [] r.pc = "emptyCreate" -> EmptyCreateStep(r, st, ok)
      [] r.pc = "emptyDelete" -> EmptyDeleteStep(r, st, ok)
      [] r.pc = "batch"       -> BatchStep(r, st, IF ok THEN "ok" ELSE "fail", {})
      [] r.pc = "marker"      -> MarkerStep(r, st, ok)
      [] r.pc = "copy"        -> CopyStep(r, st, ok)
      [] r.pc = "delete"      -> DeleteStep(r, st, ok)
      [] r.pc = "mkdst"       -> MkDstStep(r, st, ok)
      [] r.pc = "relist"      -> RelistStep(r, st, ok)
      [] r.pc = "cleanup"     -> CleanupStep(r, st, ok)
      [] r.pc = "main"        -> MainStep(r, st, ok)
      [] OTHER                -> Result(r, st)

Running(r) == r.pc \notin {"idle", "done", "failed", "returned"}

\* A CopyObject whose source key does not exist is rejected by the server.
CanSucceed(r, st) ==
    r.pc = "copy" => HasKey(st[r.srcBucket], r.objects[r.i + 1])

-----------------------------------------------------------------------------
(* The pagination cache: one entry per scope (bucket, prefix); the bucket's   *)
(* root scope has the empty prefix.                                           *)

EmptyCache == << >>

Scope(bucket, prefix) == <<bucket, prefix>>

CacheEntry(objects, prefixes, isTruncated, token) ==
    [objects |-> objects, prefixes |-> prefixes, isTruncated |-> isTruncated,
     continuationToken |-> token]

CacheHas(c, bucket, prefix) == Scope(bucket, prefix) \in DOMAIN c

\* get(scope): the entry (callers test CacheHas for a miss).
CacheGet(c, bucket, prefix) == c[Scope(bucket, prefix)]

\* set(scope, ...): replaces the entry wholesale.
CacheSet(c, bucket, prefix, objects, prefixes, isTruncated, token) ==
    [sc \in DOMAIN c \cup {Scope(bucket, prefix)} |->
        IF sc = Scope(bucket, prefix)
        THEN CacheEntry(objects, prefixes, isTruncated, token)
        ELSE c[sc]]

\* append(scope, ...) keeping the truncation flag and the token of the entry.
CacheAppendKeepingToken(c, bucket, prefix, objects, prefixes, isTruncated, token) ==
    IF CacheHas(c, bucket, prefix)
    THEN LET old == CacheGet(c, bucket, prefix)
         IN  [c EXCEPT ![Scope(bucket, prefix)] =
                 CacheEntry(old.objects \o objects, old.prefixes \o prefixes,
                            old.isTruncated, old.continuationToken)]
    ELSE CacheSet(c, bucket, prefix, objects, prefixes, isTruncated, token)

\* append(scope, ...): concatenates onto the existing entry and overwrites the
\* truncation flag and the token.
CacheAppend(c, bucket, prefix, objects, prefixes, isTruncated, token) ==
    IF CacheHas(c, bucket, prefix)
    THEN LET old == CacheGet(c, bucket, prefix)
         IN  [c EXCEPT ![Scope(bucket, prefix)] =
                 CacheEntry(old.objects \o objects, old.prefixes \o prefixes,
                            isTruncated, token)]
    ELSE CacheSet(c, bucket, prefix, objects, prefixes, isTruncated, token)

\* invalidate(bucket, prefix): drops exactly that scope.
CacheInvalidate(c, bucket, prefix) ==
    [sc \in DOMAIN c \ {Scope(bucket, prefix)} |-> c[sc]]

\* invalidate(bucket): drops every scope of the bucket.
CacheInvalidateBucket(c, bucket) ==
    [sc \in {x \in DOMAIN c : x[1] # bucket} |-> c[sc]]

\* invalidateAll()
CacheInvalidateAll(c) == EmptyCache

\* refresh() without an element: s3Cache.invalidateAll(), then the tree is redrawn.
refresh(c) == CacheInvalidateAll(c)

\* What a handler does to the cache after its last awaited call succeeded.
FinishCache(r, c) ==
    CASE r.kind = "delete" -> refresh(CacheInvalidateBucket(c, r.srcBucket))
      [] r.kind = "rename" ->
            refresh(CacheInvalidate(c, r.srcBucket,
                                    Join(DropLast(SelectSeq(Split(r.src), NonEmptyPart)))))
      [] r.kind = "pasteCopy" -> refresh(CacheInvalidateBucket(c, r.dstBucket))
      [] OTHER ->
            refresh(CacheInvalidateBucket(CacheInvalidateBucket(c, r.srcBucket), r.dstBucket))

-----------------------------------------------------------------------------
(* Delimiter listing and the explorer's tree materialisation.                 *)

\* The entry a key contributes to a "/"-delimited listing of prefix: the key itself,
\* or the common prefix up to the first "/" after prefix.
EntryOf(key, prefix) ==
    LET after == {i \in SlashPositions(key) : i > Len(prefix)}
    IN  IF after = {} THEN [isPrefix |-> FALSE, name |-> key]
        ELSE [isPrefix |-> TRUE, name |-> SubSeq(key, 1, MinOf(after))]

\* The entries of the scope in listing order, each common prefix once.
Entries(objs, prefix) ==
    LET Under(e) == StartsWith(e.key, prefix)
        EntryAt(e) == EntryOf(e.key, prefix)
        IsFirst(t) == t.first
        Tagged(all) ==
            [i \in 1..Len(all) |->
                [entry |-> all[i], first |-> i = 1 \/ all[i] # all[i - 1]]]
        Untagged(firsts) == [i \in 1..Len(firsts) |-> firsts[i].entry]
        Grouped(hits) ==
            Untagged(SelectSeq(Tagged([i \in 1..Len(hits) |-> EntryAt(hits[i])]), IsFirst))
    IN  Grouped(SelectSeq(objs, Under))

\* listObjects(bucket, prefix, continuationToken): one ListObjectsV2 page with
\* Delimiter "/" and MaxKeys 1000; the object whose key is the prefix is dropped.
\* The token stands for the last entry of the page before.
listObjects(objs, prefix, continuationToken) ==
    LET After(e) == continuationToken = EmptyStr \/ LexLess(continuationToken, e.name)
        IsObject(e) == ~e.isPrefix /\ e.name # prefix
        IsPrefix(e) == e.isPrefix
        NameOf(q) == [i \in 1..Len(q) |-> q[i].name]
        Page(rest, n) ==
            [objects |-> NameOf(SelectSeq(SubSeq(rest, 1, n), IsObject)),
             prefixes |-> NameOf(SelectSeq(SubSeq(rest, 1, n), IsPrefix)),
             isTruncated |-> Len(rest) > n,
             continuationToken |-> IF Len(rest) > n /\ n > 0 THEN rest[n].name ELSE EmptyStr]
        First(rest) == Page(rest, Min2(MAX_KEYS_PER_REQUEST, Len(rest)))
    IN  First(SelectSeq(Entries(objs, prefix), After))

Node(type, bucket, key, token) ==
    [type |-> type, bucket |-> bucket, key |-> key, token |-> token]

\* String.prototype.toLowerCase, on the letters A to Z.
toLowerCase(text) ==
    [i \in 1..Len(text) |-> IF text[i] >= 65 /\ text[i] <= 90 THEN text[i] + 32 ELSE text[i]]

\* String.prototype.includes
Includes(text, pattern) ==
    \E i \in 0..(Len(text) - Len(pattern)) : SubSeq(text, i + 1, i + Len(pattern)) = pattern

\* fuzzyMatch(pattern, text): an empty pattern matches everything.
fuzzyMatch(pattern, text) ==
    pattern = EmptyStr \/ Includes(toLowerCase(text), toLowerCase(pattern))

\* The characters of a bucket's name ("b1", "b2").
BucketName(bucket) == IF bucket = "b1" THEN <<98, 49>> ELSE <<98, 50>>

\* matchesFilter(node): the bucket name, the prefix's full path or the object's full
\* key against the filter text; a load-more node always matches.
matchesFilter(node) ==
    IF ~view.filterActive THEN TRUE
    ELSE CASE node.type = "bucket" -> fuzzyMatch(view.filterText, BucketName(node.bucket))
           [] node.type = "prefix" -> fuzzyMatch(view.filterText, node.key)
           [] node.type = "object" -> fuzzyMatch(view.filterText, node.key)
           [] node.type = "loadMore" -> TRUE
           [] OTHER -> FALSE

\* The object nodes of a listing: under a filter only the matching ones.
ObjectNodes(bucket, objects) ==
    LET Shown(node) == ~view.filterActive \/ matchesFilter(node)
    IN  SelectSeq([i \in 1..Len(objects) |-> Node("object", bucket, objects[i], EmptyStr)],
                  Shown)

\* createNodes(bucket, result): the prefix nodes, then the object nodes, then a
\* load-more node when the listing is truncated and has a token.
createNodes(bucket, result) ==
    [i \in 1..Len(result.prefixes) |-> Node("prefix", bucket, result.prefixes[i], EmptyStr)]
    \o ObjectNodes(bucket, result.objects)
    \o (IF result.isTruncated /\ result.continuationToken # EmptyStr
        THEN <<Node("loadMore", bucket, EmptyStr, result.continuationToken)>>
        ELSE << >>)

\* createNodesFromCache with the object loop ahead of the prefix loop.
createNodesObjectsFirst(bucket, cached) ==
    ObjectNodes(bucket, cached.objects)
    \o [i \in 1..Len(cached.prefixes) |-> Node("prefix", bucket, cached.prefixes[i], EmptyStr)]
    \o (IF cached.isTruncated /\ cached.continuationToken # EmptyStr
        THEN <<Node("loadMore", bucket, EmptyStr, cached.continuationToken)>>
        ELSE << >>)

\* createNodesFromCache(bucket, cached): the same three loops over the cache entry.
createNodesFromCache(bucket, cached) ==
    [i \in 1..Len(cached.prefixes) |-> Node("prefix", bucket, cached.prefixes[i], EmptyStr)]
    \o ObjectNodes(bucket, cached.objects)
    \o (IF cached.isTruncated /\ cached.continuationToken # EmptyStr
        THEN <<Node("loadMore", bucket, EmptyStr, cached.continuationToken)>>
        ELSE << >>)

\* getPrefixContents storing in the cache the objects it makes nodes of.
getPrefixContentsCachingShown(st, c, bucket, prefix, continuationToken) ==
    IF CacheHas(c, bucket, prefix) /\ continuationToken = EmptyStr
    THEN [nodes |-> createNodesFromCache(bucket, CacheGet(c, bucket, prefix)), cache |-> c]
    ELSE LET KeyOf(nodes) == [i \in 1..Len(nodes) |-> nodes[i].key]
             Fetched(result, shown) ==
                 [nodes |-> createNodes(bucket, result),
                  cache |-> IF continuationToken # EmptyStr
                            THEN CacheAppend(c, bucket, prefix, shown, result.prefixes,
                                             result.isTruncated, result.continuationToken)
                            ELSE CacheSet(c, bucket, prefix, shown, result.prefixes,
                                          result.isTruncated, result.continuationToken)]
             Listed(result) == Fetched(result, KeyOf(ObjectNodes(bucket, result.objects)))
         IN  Listed(listObjects(st[bucket], prefix, continuationToken))

\* getBucketContents / getPrefixContents(bucket, prefix, continuationToken): a cache
\* hit when there is an entry and no token; otherwise one page is fetched, and
\* appended to the cache (token given) or set as the new entry.
getPrefixContents(st, c, bucket, prefix, continuationToken) ==
    IF CacheHas(c, bucket, prefix) /\ continuationToken = EmptyStr
    THEN [nodes |-> createNodesFromCache(bucket, CacheGet(c, bucket, prefix)), cache |-> c]
    ELSE LET Fetched(result) ==
                 [nodes |-> createNodes(bucket, result),
                  cache |-> IF continuationToken # EmptyStr
                            THEN CacheAppend(c, bucket, prefix, result.objects, result.prefixes,
                                             result.isTruncated, result.continuationToken)
                            ELSE CacheSet(c, bucket, prefix, result.objects, result.prefixes,
                                          result.isTruncated, result.continuationToken)]
         IN  Fetched(listObjects(st[bucket], prefix, continuationToken))

-----------------------------------------------------------------------------
(* findNode(bucket, key): the level-by-level search of the explorer.          *)

NoNode == Node("none", NoBucket, EmptyStr, EmptyStr)

IdleFind ==
    [pc |-> "idle", bucket |-> NoBucket, key |-> EmptyStr, i |-> 0,
     currentPrefix |-> EmptyStr, currentNodes |-> << >>, result |-> NoNode]

\* key.split("/").filter(s => s.length > 0)
segments(key) == SelectSeq(Split(key), NonEmptyPart)

\* currentNodes.find(n => n.type === type && n.key === key); NoNode when none.
FindIn(nodes, type, key) ==
    LET hit == {i \in 1..Len(nodes) : nodes[i].type = type /\ nodes[i].key = key}
    IN  IF hit = {} THEN NoNode ELSE nodes[MinOf(hit)]

\* currentNodes.find(isLoadMoreNode)
LoadMoreOf(nodes) ==
    LET hit == {i \in 1..Len(nodes) : nodes[i].type = "loadMore"}
    IN  IF hit = {} THEN NoNode ELSE nodes[MinOf(hit)]

\* currentPrefix.split("/").slice(0, -2).join("/") + (that slice non-empty ? "/" : "")
parentPrefixOf(currentPrefix) ==
    LET parts == Split(currentPrefix)
        head  == SubSeq(parts, 1, Len(parts) - 2)
    IN  Join(head) \o (IF Len(head) > 0 THEN <<Slash>> ELSE EmptyStr)

Returned(f, node) ==
    [f EXCEPT !.pc = IF node = NoNode THEN "notFound" ELSE "found", !.result = node]

\* Entry of findNode up to the loop: without a key (or without segments) the bucket
\* node is looked up; otherwise the bucket's root scope is materialised.
FindStart(bucket, key) ==
    /\ find.pc = "idle"
    /\ IF key = EmptyStr \/ Len(segments(key)) = 0
       THEN /\ find' = Returned([IdleFind EXCEPT !.bucket = bucket, !.key = key],
                                IF bucket \in Buckets
                                THEN Node("bucket", bucket, EmptyStr, EmptyStr) ELSE NoNode)
            /\ cache' = cache
       ELSE \E g \in {getPrefixContents(store, cache, bucket, EmptyStr, EmptyStr)} :
                /\ find' = [IdleFind EXCEPT !.pc = "segment", !.bucket = bucket,
                                            !.key = key, !.currentNodes = g.nodes]
                /\ cache' = g.cache
    /\ UNCHANGED <<store, run, retry, twin, view, command, lister, client, upload, clipboard>>

\* The last segment of a key that is no folder: the object is looked up in the
\* current scope; a load-more node sends the search to the paging loop.
FindObject ==
    \E objectNode \in {FindIn(find.currentNodes, "object", find.key)} :
        /\ find' = IF objectNode # NoNode THEN Returned(find, objectNode)
                   ELSE IF LoadMoreOf(find.currentNodes) # NoNode
                   THEN [find EXCEPT !.pc = "objectMore"]
                   ELSE Returned(find, NoNode)
        /\ cache' = cache

\* A folder segment cp: found in the current scope it is returned (last segment) or
\* its children become the current scope; not found, the paging loop takes over.
FindPrefix(cp, isLastSegment) ==
    \E prefixNode \in {FindIn(find.currentNodes, "prefix", cp)} :
        IF prefixNode # NoNode
        THEN IF isLastSegment
             THEN find' = Returned([find EXCEPT !.currentPrefix = cp], prefixNode)
                  /\ cache' = cache
             ELSE \E g \in {getPrefixContents(store, cache, find.bucket, cp, EmptyStr)} :
                      /\ find' = [find EXCEPT !.currentPrefix = cp, !.i = @ + 1,
                                              !.currentNodes = g.nodes]
                      /\ cache' = g.cache
        ELSE /\ find' = IF LoadMoreOf(find.currentNodes) # NoNode
                        THEN [find EXCEPT !.currentPrefix = cp, !.pc = "prefixMore"]
                        ELSE Returned([find EXCEPT !.currentPrefix = cp], NoNode)
             /\ cache' = cache

\* One pass of the segment loop, up to its first awaited call.
FindSegment ==
    /\ find.pc = "segment"
    /\ \E segs \in {segments(find.key)} :
           IF find.i >= Len(segs)
           THEN find' = Returned(find, NoNode) /\ cache' = cache
           ELSE IF find.i + 1 = Len(segs) /\ ~EndsWithSlash(find.key)
           THEN FindObject
           ELSE FindPrefix(find.currentPrefix \o segs[find.i + 1] \o <<Slash>>,
                           find.i + 1 = Len(segs))
    /\ UNCHANGED <<store, run, retry, twin, view, command, lister, client, upload, clipboard>>

\* One pass of the object branch's paging loop: the next page is fetched into the
\* cache, the scope is re-read from the cache, the object is looked up again.
FindObjectMore ==
    /\ find.pc = "objectMore"
    /\ \E g1 \in {getPrefixContents(store, cache, find.bucket, find.currentPrefix,
                                    LoadMoreOf(find.currentNodes).token)} :
       \E g2 \in {getPrefixContents(store, g1.cache, find.bucket, find.currentPrefix,
                                    EmptyStr)} :
       \E found \in {FindIn(g2.nodes, "object", find.key)} :
           /\ find' = IF found # NoNode
                      THEN Returned([find EXCEPT !.currentNodes = g2.nodes], found)
                      ELSE IF LoadMoreOf(g2.nodes) # NoNode
                      THEN [find EXCEPT !.currentNodes = g2.nodes]
                      ELSE Returned([find EXCEPT !.currentNodes = g2.nodes], NoNode)
           /\ cache' = g2.cache
    /\ UNCHANGED <<store, run, retry, twin, view, command, lister, client, upload, clipboard>>

\* One pass of the prefix branch's paging loop.  When the prefix turns up on a later
\* page and is not the last segment, its children are fetched and the loop is left
\* by break; the test after the loop reads prefixNode, the const that was undefined
\* when the loop was entered, and returns undefined.
FindPrefixMore ==
    /\ find.pc = "prefixMore"
    /\ \E parentPrefix \in {parentPrefixOf(find.currentPrefix)} :
       \E g1 \in {getPrefixContents(store, cache, find.bucket, parentPrefix,
                                    LoadMoreOf(find.currentNodes).token)} :
       \E g2 \in {getPrefixContents(store, g1.cache, find.bucket, parentPrefix, EmptyStr)} :
       \E found \in {FindIn(g2.nodes, "prefix", find.currentPrefix)} :
           IF found # NoNode
           THEN IF find.i + 1 = Len(segments(find.key))
                THEN find' = Returned([find EXCEPT !.currentNodes = g2.nodes], found)
                     /\ cache' = g2.cache
                ELSE \E g3 \in {getPrefixContents(store, g2.cache, find.bucket,
                                                  find.currentPrefix, EmptyStr)} :
                         /\ find' = Returned([find EXCEPT !.currentNodes = g3.nodes], NoNode)
                         /\ cache' = g3.cache
           ELSE /\ find' = IF LoadMoreOf(g2.nodes) # NoNode
                           THEN [find EXCEPT !.currentNodes = g2.nodes]
                           ELSE Returned([find EXCEPT !.currentNodes = g2.nodes], NoNode)
                /\ cache' = g2.cache
    /\ UNCHANGED <<store, run, retry, twin, view, command, lister, client, upload, clipboard>>

\* The caller takes the result; the explorer is ready for the next search.
FindReturn ==
    /\ find.pc \in {"found", "notFound"}
    /\ find' = IdleFind
    /\ UNCHANGED <<store, cache, run, retry, twin, view, command, lister, client, upload,
                   clipboard>>

-----------------------------------------------------------------------------
(* The explorer's tree requests: getChildren with the filter, refresh.        *)

IdleView ==
    [filterActive |-> FALSE, filterText |-> EmptyStr, op |-> "none", element |-> NoNode,
     shown |-> << >>, fetched |-> FALSE, message |-> "none", raw |-> NoError,
     fired |-> "none", tokens |-> << >>, pending |-> << >>]

\* prefixHasMatches(bucket, prefix): one listObjects call for the level (its first
\* page only); a matching subfolder, a subfolder with matches, or a matching object.
RECURSIVE prefixHasMatches(_, _, _)
prefixHasMatches(objs, bucket, prefix) ==
    LET Check(result) ==
            \/ \E i \in 1..Len(result.prefixes) :
                   \/ matchesFilter(Node("prefix", bucket, result.prefixes[i], EmptyStr))
                   \/ prefixHasMatches(objs, bucket, result.prefixes[i])
            \/ \E i \in 1..Len(result.objects) :
                   matchesFilter(Node("object", bucket, result.objects[i], EmptyStr))
    IN  Check(listObjects(objs, prefix, EmptyStr))

\* filterChildren(nodes, bucket): without a filter the nodes as they are; with one,
\* the matching objects, the folders that match or hold a match, the load-more nodes.
filterChildren(nodes, objs, bucket) ==
    LET Keep(node) ==
            \/ node.type = "object" /\ matchesFilter(node)
            \/ node.type = "prefix"
               /\ (matchesFilter(node) \/ prefixHasMatches(objs, bucket, node.key))
            \/ node.type = "loadMore"
    IN  IF ~view.filterActive THEN nodes ELSE SelectSeq(nodes, Keep)

\* bucketHasMatches(bucket): one listObjects call for the bucket's root (its first
\* page only); a matching folder, a folder with matches, or a matching object.
bucketHasMatches(objs, bucket) ==
    LET Check(result) ==
            \/ \E i \in 1..Len(result.prefixes) :
                   \/ matchesFilter(Node("prefix", bucket, result.prefixes[i], EmptyStr))
                   \/ prefixHasMatches(objs, bucket, result.prefixes[i])
            \/ \E i \in 1..Len(result.objects) :
                   matchesFilter(Node("object", bucket, result.objects[i], EmptyStr))
    IN  Check(listObjects(objs, EmptyStr, EmptyStr))

\* refresh(element) dropping the whole bucket for a prefix node as well.
refreshElementWholeBucket(c, element) ==
    IF element # NoNode
    THEN IF element.type \in {"bucket", "prefix"}
         THEN CacheInvalidateBucket(c, element.bucket)
         ELSE c
    ELSE CacheInvalidateAll(c)

\* refresh(element): the cache part of it.
refreshElement(c, element) ==
    IF element # NoNode
    THEN IF element.type = "bucket" THEN CacheInvalidateBucket(c, element.bucket)
         ELSE IF element.type = "prefix" THEN CacheInvalidate(c, element.bucket, element.key)
         ELSE c
    ELSE CacheInvalidateAll(c)

\* Whether the message of the error listObjects throws includes "does not exist" or
\* "NoSuchBucket": its own message for the code NoSuchBucket, else the service's
\* message, which says so for the codes NoSuchBucket and NoSuchKey.
SaysNotExist(e) == e.code = "NoSuchBucket" \/ e.code = "NoSuchKey"

\* The catch block of getChildren: what it does to the cache ...
RecoverCache(c, element, e) ==
    IF SaysNotExist(e) /\ element.type \in {"bucket", "prefix"}
    THEN CacheInvalidateBucket(c, element.bucket)
    ELSE c

\* ... and the message it shows.
RecoverMessage(element, e) ==
    IF SaysNotExist(e) /\ element.type = "bucket" THEN "bucketGone"
    ELSE IF isAuthError(WrapError("listObjects", e)) THEN "auth"
    ELSE "generic"

-----------------------------------------------------------------------------
(* The create-folder and upload-folder commands; listAllObjectsRecursive page  *)
(* by page.                                                                   *)

NoMessage == [kind |-> "none", text |-> ""]

IdleCommand ==
    [kind |-> "none", pc |-> "idle", node |-> NoNode, bucket |-> NoBucket,
     prefix |-> EmptyStr, folderName |-> EmptyStr, files |-> << >>, started |-> 0,
     uploadedCount |-> 0, cancelRequested |-> FALSE, increments |-> 0,
     message |-> NoMessage, count |-> 0]

IdleLister ==
    [pc |-> "idle", bucket |-> NoBucket, prefix |-> EmptyStr, maxObjects |-> NoMax,
     allObjects |-> << >>, continuationToken |-> EmptyStr, pages |-> 0,
     earlier |-> << >>, attempt |-> 0, failedAfter |-> -1]

NoClient == 0       \* cachedClient = null; the instances are numbered from 1

\* The settings of a new installation with working credentials.
DefaultConfig ==
    [endpointUrl |-> "https://h", region |-> "us-east-1", accessKeyId |-> "k1",
     secretAccessKey |-> "s1", forcePathStyle |-> TRUE, maxPreviewSizeBytes |-> 10485760]

NoConfig == [endpointUrl |-> "", region |-> "", accessKeyId |-> "", secretAccessKey |-> "",
             forcePathStyle |-> FALSE, maxPreviewSizeBytes |-> 0]

\* config: the s3x settings (getConfig reads them).  cachedClient, cachedConfig: the
\* module's variables.  created: the instances constructed so far.  op, forceNew,
\* result, thrown: the last call.  earlier: the settings of the last call that
\* returned, and whether one has returned since the cache was last cleared.
IdleClient ==
    [config |-> DefaultConfig, cachedClient |-> NoClient, cachedConfig |-> NoConfig,
     created |-> 0, edits |-> 0, op |-> "none", forceNew |-> FALSE, result |-> NoClient,
     thrown |-> << >>, earlierConfig |-> NoConfig, earlierResult |-> NoClient,
     sinceClear |-> FALSE, destroyed |-> {}]

NoUpload == 0       \* uploadId while it is undefined; the upload ids are 1, 2, ...

\* let clipboard: ClipboardItem | undefined, while undefined
NoClipboard ==
    [bucket |-> NoBucket, key |-> EmptyStr, prefix |-> EmptyStr, operation |-> "none",
     itemType |-> "none"]

\* One uploadFile(bucket, key, filePath): the file's size, the locals of
\* uploadFileMultipart, its position, and the requests it has sent.
IdleUpload ==
    [pc |-> "idle", bucket |-> NoBucket, key |-> EmptyStr, size |-> 0, uploadId |-> NoUpload,
     partNumber |-> 0, totalParts |-> 0, parts |-> << >>, log |-> << >>, thrown |-> "none"]

-----------------------------------------------------------------------------
(* The buckets' initial contents.                                             *)

\* An unsorted list of objects as a bucket: inserted one by one, in key order.
RECURSIVE Bucket(_)
Bucket(objs) ==
    IF Len(objs) = 0 THEN << >>
    ELSE PutKey(Bucket(Tail(objs)), Head(objs).key, Head(objs).data)

\* The largest number of full batches (pages) a large folder holds.
MaxFullBatches == 2

\* The object counts of the large folders: around the multiples of the batch size.
BigSizes == {k * batchSize + d : k \in 0..MaxFullBatches, d \in 0..1} \ {0}

\* A folder "d/" with its marker and n objects "d/<c>", c a single code point.
BigFolder(n) ==
    <<Obj(<<100, 47>>, EmptyMarkerData)>>
    \o [i \in 1..n |-> Obj(<<100, 47, 1000 + i>>, 1000 + i)]

\* "a/" and "a/a/" with markers, files at three depths, and a file at the root.
SmallTree ==
    Bucket(<<Obj(<<97, 47>>, EmptyMarkerData),
             Obj(<<97, 47, 97, 47>>, EmptyMarkerData),
             Obj(<<97, 47, 97, 47, 97, 47, 120>>, 1),
             Obj(<<97, 47, 97, 47, 120>>, 2),
             Obj(<<97, 47, 121>>, 3),
             Obj(<<115>>, 4)>>)

\* A second tree: an empty folder "e/" (its marker only) and a key "a/y".
OtherTree ==
    Bucket(<<Obj(<<101, 47>>, EmptyMarkerData), Obj(<<97, 47, 121>>, 5)>>)

SmallStores == {[b1 |-> SmallTree, b2 |-> OtherTree]}

BigStores == {[b1 |-> BigFolder(n), b2 |-> << >>] : n \in BigSizes}

\* The folders the tree shows in a bucket: every prefix that ends in "/" of a key.
FoldersOf(objs) ==
    UNION {{SubSeq(objs[i].key, 1, p) : p \in SlashPositions(objs[i].key)} :
           i \in 1..Len(objs)}

\* The files the tree shows: the keys that are not folder markers.
FilesOf(objs) == {k \in KeysOf(objs) : ~EndsWithSlash(k)}

\* Where a move, paste or drop can be aimed: the bucket itself or one of its folders.
TargetsOf(objs) == {EmptyStr} \cup FoldersOf(objs)

\* The names typed into the rename box.
NewNames == {<<110>>, <<97>>, <<101>>}

-----------------------------------------------------------------------------
(* The bulk operations as a state machine.                                    *)

\* The most calls that fail in one behaviour.
MaxFailures == 1

\* The most times one operation is started (the first run and its re-runs).
MaxStarts == 2

\* A batch response lists as failed a set of keys among the first MaxBadKeys.
MaxBadKeys == 2

IsBig(st) == Len(st["b1"]) > 10

\* A command of the tree view is invoked on a folder or a file.
Invoke ==
    /\ run.pc = "idle"
    /\ \E sb \in Buckets :
         \/ \E src \in FoldersOf(store[sb]) :
              run' = StartRun("delete", sb, src, sb, EmptyStr, store)
         \/ /\ ~IsBig(store)
            /\ \E src \in FoldersOf(store[sb]), newFolderName \in NewNames :
                 /\ newFolderName # sourceFolderName(src)
                 /\ run' = StartRun("rename", sb, src, sb,
                                    renamedPrefix(src, newFolderName), store)
         \/ /\ ~IsBig(store)
            /\ \E kind \in {"moveFolder", "pasteCut", "pasteCopy", "drop"},
                  src \in FoldersOf(store[sb]), db \in Buckets :
                 \E targetPrefix \in TargetsOf(store[db]) :
                    run' = StartRun(kind, sb, src, db,
                                    targetFolderPrefix(targetPrefix, src), store)
         \/ /\ ~IsBig(store)
            /\ \E key \in FilesOf(store[sb]), db \in Buckets :
                 \E targetPrefix \in TargetsOf(store[db]) :
                    run' = StartRun("moveFile", sb, key, db,
                                    targetFileKey(targetPrefix, key), store)
    /\ UNCHANGED <<store, cache, retry, find, twin, view, command, lister, client, upload,
                   clipboard>>

\* A copy onto the key itself: whether the server accepts it depends on the server.
IsSelfCopy(r) ==
    /\ r.pc = "copy"
    /\ r.srcBucket = r.dstBucket
    /\ targetKeyOf(r, r.objects[r.i + 1]) = r.objects[r.i + 1]

\* The run's state and the bucket after the awaited call; a handler that returns
\* invalidates the cache and refreshes the tree.
Advance(ok) ==
    \E next \in {Step(run, store, ok)} :
        /\ run' = next.run
        /\ store' = next.store
        /\ cache' = IF next.run.pc = "done" THEN FinishCache(run, cache) ELSE cache
        /\ UNCHANGED <<retry, find, twin, view, command, lister, client, upload, clipboard>>

\* The awaited call succeeds.
CallSucceeds ==
    /\ Running(run)
    /\ CanSucceed(run, store)
    /\ Advance(TRUE)

\* The awaited call fails (after the retries of withRetry, if any).
CallFails ==
    /\ Running(run)
    /\ run.failures < MaxFailures \/ ~CanSucceed(run, store) \/ IsSelfCopy(run)
    /\ Advance(FALSE)

\* deleteObjects gets a response that lists per-key errors: the other keys of the
\* batch are deleted, and deleteObjects throws.
BatchReportsErrors ==
    /\ run.pc = "batch"
    /\ run.failures < MaxFailures
    /\ \E K \in SUBSET (1..Min2(MaxBadKeys, Len(batchKeys(run)))) :
         /\ K # {}
         /\ \E next \in {BatchStep(run, store, "partial", {batchKeys(run)[k] : k \in K})} :
                run' = next.run /\ store' = next.store
    /\ UNCHANGED <<cache, retry, find, twin, view, command, lister, client, upload, clipboard>>

\* The source is still shown in the tree: some key of the bucket begins with it.
SourceShown(r, st) == \E i \in 1..Len(st[r.srcBucket]) : StartsWith(st[r.srcBucket][i].key, r.src)

\* The user invokes the same command again: after it failed, or after it returned
\* having swallowed a failure that left the source in the tree.
Rerun ==
    /\ \/ run.pc = "failed"
       \/ run.pc = "done" /\ run.failures > 0 /\ SourceShown(run, store)
    /\ run.starts < MaxStarts
    /\ run' = [StartRun(run.kind, run.srcBucket, run.src, run.dstBucket, run.dst, store)
                  EXCEPT !.failures = run.failures, !.starts = run.starts + 1,
                         !.orig = run.orig]
    /\ UNCHANGED <<store, cache, retry, find, twin, view, command, lister, client, upload,
                   clipboard>>

IdleTwin == [run |-> IdleRun, store |-> << >>]

Init ==
    /\ store \in SmallStores \cup BigStores
    /\ cache = EmptyCache
    /\ run = IdleRun
    /\ retry = IdleRetry
    /\ find = IdleFind
    /\ twin = IdleTwin
    /\ view = IdleView
    /\ command = IdleCommand
    /\ lister = IdleLister
    /\ client = IdleClient
    /\ upload = IdleUpload
    /\ clipboard = NoClipboard

Next == Invoke \/ CallSucceeds \/ CallFails \/ BatchReportsErrors \/ Rerun

Spec == Init /\ [][Next]_vars

\* withRetry alone.
InitRetry ==
    /\ store \in SmallStores
    /\ cache = EmptyCache
    /\ run = IdleRun
    /\ retry = IdleRetry
    /\ find = IdleFind
    /\ twin = IdleTwin
    /\ view = IdleView
    /\ command = IdleCommand
    /\ lister = IdleLister
    /\ client = IdleClient
    /\ upload = IdleUpload
    /\ clipboard = NoClipboard

SpecRetry == InitRetry /\ [][RetryNext]_vars

-----------------------------------------------------------------------------
(* Rename beside the Move command's algorithm: the rename handler runs on the  *)
(* bucket, the body of handleMoveFolder runs on a copy of the bucket with the  *)
(* same source and destination prefix, and the k-th call of each gets the same *)
(* outcome.                                                                    *)

TwinInvoke ==
    /\ run.pc = "idle"
    /\ \E sb \in Buckets : \E src \in FoldersOf(store[sb]), newFolderName \in NewNames :
         /\ newFolderName # sourceFolderName(src)
         /\ LET newPrefix == renamedPrefix(src, newFolderName)
            IN  /\ run' = StartRun("rename", sb, src, sb, newPrefix, store)
                /\ twin' = [run |-> StartRun("moveFolder", sb, src, sb, newPrefix, store),
                            store |-> store]
    /\ UNCHANGED <<store, cache, retry, find, view, command, lister, client, upload, clipboard>>

TwinAdvance(ok) ==
    \E next \in {Step(run, store, ok)}, next2 \in {Step(twin.run, twin.store, ok)} :
        /\ run' = next.run
        /\ store' = next.store
        /\ cache' = IF run.pc # "done" /\ next.run.pc = "done"
                    THEN FinishCache(run, cache) ELSE cache
        /\ twin' = [run |-> next2.run, store |-> next2.store]
        /\ UNCHANGED <<retry, find, view, command, lister, client, upload, clipboard>>

TwinCallSucceeds ==
    /\ Running(run) \/ Running(twin.run)
    /\ CanSucceed(run, store) /\ CanSucceed(twin.run, twin.store)
    /\ TwinAdvance(TRUE)

TwinCallFails ==
    /\ Running(run) \/ Running(twin.run)
    /\ run.failures < MaxFailures /\ twin.run.failures < MaxFailures
    /\ TwinAdvance(FALSE)

TwinRerun ==
    /\ run.pc = "failed" \/ twin.run.pc = "failed"
    /\ ~Running(run) /\ ~Running(twin.run)
    /\ run.starts < MaxStarts
    /\ run' = [StartRun(run.kind, run.srcBucket, run.src, run.dstBucket, run.dst, store)
                  EXCEPT !.failures = run.failures, !.starts = run.starts + 1,
                         !.orig = run.orig]
    /\ twin' = [twin EXCEPT !.run =
                  [StartRun(twin.run.kind, twin.run.srcBucket, twin.run.src,
                            twin.run.dstBucket, twin.run.dst, twin.store)
                      EXCEPT !.failures = twin.run.failures, !.starts = twin.run.starts + 1,
                             !.orig = twin.run.orig]]
    /\ UNCHANGED <<store, cache, retry, find, view, command, lister, client, upload, clipboard>>

InitTwin ==
    /\ store \in SmallStores
    /\ cache = EmptyCache
    /\ run = IdleRun
    /\ retry = IdleRetry
    /\ find = IdleFind
    /\ twin = IdleTwin
    /\ view = IdleView
    /\ command = IdleCommand
    /\ lister = IdleLister
    /\ client = IdleClient
    /\ upload = IdleUpload
    /\ clipboard = NoClipboard

TwinNext == TwinInvoke \/ TwinCallSucceeds \/ TwinCallFails \/ TwinRerun

SpecTwin == InitTwin /\ [][TwinNext]_vars

-----------------------------------------------------------------------------
(* findNode on buckets whose scopes span one or two pages.                    *)

\* "d/" with its marker, as many objects as a page holds, and after them in key
\* order a folder "d/<5000>/" holding one file and a file "d/<6000>": the scope
\* "d/" has two pages.
PagedTree ==
    LET big  == BigFolder(MAX_KEYS_PER_REQUEST)
        late == <<Obj(<<100, 47, 5000, 47, 120>>, 7), Obj(<<100, 47, 6000>>, 8)>>
    IN  big \o late

FindStores == SmallStores \cup {[b1 |-> PagedTree, b2 |-> OtherTree]}

\* The searches look for the first and last MaxProbe keys of a bucket, ...
MaxProbe == 3

\* ... for its folders, and for keys that no listing holds.
MissingKeys ==
    {<<97, 47, 113>>, <<113, 47, 120>>, <<100, 47, 7000>>, <<100, 47, 7000, 47>>,
     <<100, 47, 7000, 47, 120>>}

FindKeys(objs) ==
    {objs[i].key : i \in {k \in 1..Len(objs) : k <= MaxProbe \/ k > Len(objs) - MaxProbe}}
        \cup FoldersOf(objs) \cup MissingKeys \cup {EmptyStr}

FindInvoke ==
    \E bucket \in Buckets : \E key \in FindKeys(store[bucket]) : FindStart(bucket, key)

InitFind ==
    /\ store \in FindStores
    /\ cache = EmptyCache
    /\ run = IdleRun
    /\ retry = IdleRetry
    /\ find = IdleFind
    /\ twin = IdleTwin
    /\ view = IdleView
    /\ command = IdleCommand
    /\ lister = IdleLister
    /\ client = IdleClient
    /\ upload = IdleUpload
    /\ clipboard = NoClipboard

FindNext == FindInvoke \/ FindSegment \/ FindObjectMore \/ FindPrefixMore \/ FindReturn

SpecFind == InitFind /\ [][FindNext]_vars

-----------------------------------------------------------------------------
(* The explorer under tree requests (specification SpecView).                 *)

\* The paged tree with one more folder, "d/0/" holding "d/0/y", on the first page of
\* the scope "d/"; the folder "d/<5000>/" with "d/<5000>/x" is on the second page.
ViewPaged == PutKey(PagedTree, <<100, 47, 48, 47, 121>>, 9)

ViewStores == {[b1 |-> SmallTree, b2 |-> << >>], [b1 |-> ViewPaged, b2 |-> << >>]}

\* The texts typed into the filter box: "X", "y", "q".
FilterTexts == {<<88>>, <<121>>, <<113>>}

\* The errors a listing is answered with.
ViewErrors ==
    { RawError("AccessDenied", 403), RawError(NoCode, 403), RawError(NoCode, 401),
      RawError("NoSuchBucket", 404), RawError(NoCode, 503) }

\* The nodes the tree can ask the children of: the buckets and their folders.
Elements ==
    {Node("bucket", b, EmptyStr, EmptyStr) : b \in Buckets}
    \cup UNION {{Node("prefix", b, p, EmptyStr) : p \in FoldersOf(store[b])} : b \in Buckets}

\* setFilter(filterText)
SetFilter(text) ==
    /\ view' = [IdleView EXCEPT !.filterText = toLowerCase(text),
                                !.filterActive = Len(text) > 0, !.op = "setFilter",
                                !.fired = "all"]
    /\ cache' = refresh(cache)
    /\ UNCHANGED <<store, run, retry, find, twin, command, lister, client, upload, clipboard>>

\* clearFilter()
ClearFilter ==
    /\ view.filterActive
    /\ view' = [IdleView EXCEPT !.op = "clearFilter", !.fired = "all"]
    /\ cache' = refresh(cache)
    /\ UNCHANGED <<store, run, retry, find, twin, command, lister, client, upload, clipboard>>

\* getChildren(element) of a bucket or prefix node when the listing, if one is
\* needed, succeeds.
GetChildren(element) ==
    /\ element.type \in {"bucket", "prefix"}
    /\ \E g \in {getPrefixContents(store, cache, element.bucket, element.key, EmptyStr)} :
           /\ view' = [view EXCEPT !.op = "getChildren", !.element = element,
                          !.shown = filterChildren(g.nodes, store[element.bucket],
                                                   element.bucket),
                          !.fetched = ~CacheHas(cache, element.bucket, element.key),
                          !.message = "none", !.raw = NoError, !.fired = "none",
                          !.tokens = IF CacheHas(cache, element.bucket, element.key)
                                     THEN << >> ELSE <<EmptyStr>>]
           /\ cache' = g.cache
    /\ UNCHANGED <<store, run, retry, find, twin, command, lister, client, upload, clipboard>>

\* getChildren(element) when the listing throws: the catch block.
GetChildrenFails(element, e) ==
    /\ element.type \in {"bucket", "prefix"}
    /\ ~CacheHas(cache, element.bucket, element.key)
    /\ view' = [view EXCEPT !.op = "getChildren", !.element = element, !.shown = << >>,
                            !.fetched = TRUE, !.message = RecoverMessage(element, e),
                            !.raw = e, !.fired = "none", !.tokens = <<EmptyStr>>]
    /\ cache' = RecoverCache(cache, element, e)
    /\ UNCHANGED <<store, run, retry, find, twin, command, lister, client, upload, clipboard>>

\* loadMore(node) for the load-more node of the scope shown last: the next page is
\* appended to the cache and the change event is fired without an element (the whole
\* tree is redrawn, the cache is kept); a failure shows a message and fires nothing.
\* view.tokens holds the continuation tokens of the listing requests the call made.
LoadMore(ok) ==
    /\ view.op = "getChildren"
    /\ LoadMoreOf(view.shown) # NoNode
    /\ IF ok
       THEN \E g \in {getPrefixContents(store, cache, view.element.bucket, view.element.key,
                                        LoadMoreOf(view.shown).token)} :
                /\ cache' = g.cache
                /\ view' = [view EXCEPT !.op = "loadMore", !.shown = << >>,
                                        !.message = "none", !.fired = "all",
                                        !.tokens = <<LoadMoreOf(view.shown).token>>]
       ELSE /\ cache' = cache
            /\ view' = [view EXCEPT !.op = "loadMore", !.shown = << >>,
                                    !.message = "generic", !.fired = "none",
                                    !.tokens = <<LoadMoreOf(view.shown).token>>]
    /\ UNCHANGED <<store, run, retry, find, twin, command, lister, client, upload, clipboard>>

\* refresh(element), element a bucket node, a prefix node or absent.
Refresh(element) ==
    /\ cache' = refreshElement(cache, element)
    /\ view' = [view EXCEPT !.op = "refresh", !.element = element, !.shown = << >>,
                            !.fetched = FALSE, !.message = "none", !.raw = NoError,
                            !.fired = IF element = NoNode THEN "all" ELSE "element",
                            !.tokens = << >>]
    /\ UNCHANGED <<store, run, retry, find, twin, command, lister, client, upload, clipboard>>

ViewSetFilter == \E text \in FilterTexts : SetFilter(text)

ViewGetChildren == \E element \in Elements : GetChildren(element)

ViewGetChildrenFails == \E element \in Elements, e \in ViewErrors : GetChildrenFails(element, e)

ViewLoadMore == \E ok \in BOOLEAN : LoadMore(ok)

ViewRefresh == \E element \in Elements \cup {NoNode} : Refresh(element)

InitView ==
    /\ store \in ViewStores
    /\ cache = EmptyCache
    /\ run = IdleRun
    /\ retry = IdleRetry
    /\ find = IdleFind
    /\ twin = IdleTwin
    /\ view = IdleView
    /\ command = IdleCommand
    /\ lister = IdleLister
    /\ client = IdleClient
    /\ upload = IdleUpload
    /\ clipboard = NoClipboard

ViewNext == ViewSetFilter \/ ClearFilter \/ ViewGetChildren \/ ViewLoadMore

SpecView == InitView /\ [][ViewNext]_vars

\* Expanding, failing to expand and refreshing, over two buckets of small trees.
InitRecover ==
    /\ store \in SmallStores
    /\ cache = EmptyCache
    /\ run = IdleRun
    /\ retry = IdleRetry
    /\ find = IdleFind
    /\ twin = IdleTwin
    /\ view = IdleView
    /\ command = IdleCommand
    /\ lister = IdleLister
    /\ client = IdleClient
    /\ upload = IdleUpload
    /\ clipboard = NoClipboard

RecoverNext == ViewGetChildren \/ ViewGetChildrenFails \/ ViewRefresh

SpecRecover == InitRecover /\ [][RecoverNext]_vars

-----------------------------------------------------------------------------
(* The root of the tree under a filter (specification SpecRoot).              *)

\* getBuckets(): a bucket node for each bucket listBuckets returns.
getBuckets == <<Node("bucket", "b1", EmptyStr, EmptyStr), Node("bucket", "b2", EmptyStr, EmptyStr)>>

\* getChildren() without element, when listBuckets succeeds: the buckets, under a
\* filter those for which bucketHasMatches holds.
GetRootChildren ==
    /\ view' = [view EXCEPT
                   !.op = "getRoot", !.element = NoNode,
                   !.shown = LET HasMatches(node) == bucketHasMatches(store[node.bucket],
                                                                      node.bucket)
                             IN  IF view.filterActive THEN SelectSeq(getBuckets, HasMatches)
                                 ELSE getBuckets,
                   !.fetched = TRUE, !.message = "none", !.raw = NoError,
                   !.fired = "none", !.tokens = << >>]
    /\ UNCHANGED <<store, cache, run, retry, find, twin, command, lister, client, upload,
                   clipboard>>

\* The texts typed into the filter box: "2", "B", "E", "q".
RootFilterTexts == {<<50>>, <<66>>, <<69>>, <<113>>}

RootSetFilter == \E text \in RootFilterTexts : SetFilter(text)

RootNext == RootSetFilter \/ ClearFilter \/ ViewGetChildren \/ GetRootChildren

SpecRoot == InitRecover /\ [][RootNext]_vars

-----------------------------------------------------------------------------
(* Tree requests whose listings overlap in time (specification SpecPages).    *)
(* getChildren and loadMore are async: between the listObjects request and    *)
(* its response other requests, responses and refreshes take place.           *)
(* view.pending holds the listings in flight.                                 *)

\* The most listings in flight at a time.
MaxPending == 2

PagesStores == {[b1 |-> ViewPaged, b2 |-> << >>]}

\* The nodes expanded and refreshed: the bucket and its folder of two pages.
PagesElements ==
    {Node("bucket", "b1", EmptyStr, EmptyStr), Node("prefix", "b1", <<100, 47>>, EmptyStr)}

Without(q, n) == SubSeq(q, 1, n - 1) \o SubSeq(q, n + 1, Len(q))

\* getChildren(element) served from the cache: it returns without an await.
PagesExpandCached(element) ==
    /\ CacheHas(cache, element.bucket, element.key)
    /\ GetChildren(element)

\* getChildren(element) on a cache miss, up to the awaited listObjects.
PagesExpandRequest(element) ==
    /\ ~CacheHas(cache, element.bucket, element.key)
    /\ Len(view.pending) < MaxPending
    /\ view' = [view EXCEPT !.op = "request",
                            !.pending = Append(@, [element |-> element, token |-> EmptyStr])]
    /\ UNCHANGED <<store, cache, run, retry, find, twin, command, lister, client, upload,
                   clipboard>>

\* loadMore(node) for the load-more node on display, up to the awaited listObjects.
PagesLoadMoreRequest ==
    /\ LoadMoreOf(view.shown) # NoNode
    /\ Len(view.pending) < MaxPending
    /\ view' = [view EXCEPT !.op = "request",
                            !.pending = Append(@, [element |-> view.element,
                                                   token |-> LoadMoreOf(view.shown).token])]
    /\ UNCHANGED <<store, cache, run, retry, find, twin, command, lister, client, upload,
                   clipboard>>

\* The listing in flight at position n returns: getBucketContents/getPrefixContents
\* from the await on, then the rest of getChildren or of loadMore.
PagesResponse(n) ==
    /\ n \in 1..Len(view.pending)
    /\ \E req \in {view.pending[n]} :
       \E result \in {listObjects(store[req.element.bucket], req.element.key, req.token)} :
          IF req.token # EmptyStr
          THEN /\ cache' = CacheAppend(cache, req.element.bucket, req.element.key,
                                       result.objects, result.prefixes,
                                       result.isTruncated, result.continuationToken)
               /\ view' = [view EXCEPT !.op = "loadMore", !.shown = << >>,
                                       !.message = "none", !.fired = "all",
                                       !.tokens = <<req.token>>,
                                       !.pending = Without(@, n)]
          ELSE /\ cache' = CacheSet(cache, req.element.bucket, req.element.key,
                                    result.objects, result.prefixes,
                                    result.isTruncated, result.continuationToken)
               /\ view' = [view EXCEPT !.op = "getChildren", !.element = req.element,
                              !.shown = filterChildren(createNodes(req.element.bucket, result),
                                                       store[req.element.bucket],
                                                       req.element.bucket),
                              !.fetched = TRUE, !.message = "none", !.raw = NoError,
                              !.fired = "none", !.tokens = <<EmptyStr>>,
                              !.pending = Without(@, n)]
    /\ UNCHANGED <<store, run, retry, find, twin, command, lister, client, upload, clipboard>>

\* The listing in flight at position n throws: the catch of getChildren or loadMore.
PagesResponseFails(n) ==
    /\ n \in 1..Len(view.pending)
    /\ view' = [view EXCEPT !.op = IF view.pending[n].token # EmptyStr
                                   THEN "loadMore" ELSE "getChildren",
                            !.shown = << >>, !.message = "generic", !.fired = "none",
                            !.tokens = <<view.pending[n].token>>,
                            !.pending = Without(@, n)]
    /\ UNCHANGED <<store, cache, run, retry, find, twin, command, lister, client, upload,
                   clipboard>>

PagesExpand ==
    \E element \in PagesElements : PagesExpandCached(element) \/ PagesExpandRequest(element)

PagesReturn == \E n \in 1..MaxPending : PagesResponse(n)

PagesThrow == \E n \in 1..MaxPending : PagesResponseFails(n)

PagesRefresh == \E element \in PagesElements \cup {NoNode} : Refresh(element)

InitPages ==
    /\ store \in PagesStores
    /\ cache = EmptyCache
    /\ run = IdleRun
    /\ retry = IdleRetry
    /\ find = IdleFind
    /\ twin = IdleTwin
    /\ view = IdleView
    /\ command = IdleCommand
    /\ lister = IdleLister
    /\ client = IdleClient
    /\ upload = IdleUpload
    /\ clipboard = NoClipboard

PagesNext ==
    PagesExpand \/ PagesLoadMoreRequest \/ PagesReturn \/ PagesThrow \/ PagesRefresh

SpecPages == InitPages /\ [][PagesNext]_vars

-----------------------------------------------------------------------------
(* The create-folder and upload-folder commands (specification SpecMutate).   *)

\* The commands one behaviour runs.
MaxCommands == 1

Dot == 46

\* joinPath(a, b, c)
joinPath3(a, b, c) ==
    LET Joined(segs) == CollapseSlashes(Join([i \in 1..Len(segs) |-> StripSlashes(segs[i])]))
    IN  Joined(SelectSeq(<<a, b, c>>, NonEmptyPart))

\* path.dirname and path.basename of a relative path with forward slashes.
dirname(relativePath) ==
    IF SlashPositions(relativePath) = {} THEN <<Dot>>
    ELSE SubSeq(relativePath, 1, MaxOf(SlashPositions(relativePath)) - 1)

basename(relativePath) == LastSegment(relativePath)

\* applyFileNameTemplate(originalFileName, "${fileName}${extName}"): the name up to
\* its last dot (when that dot is not the first character), then the rest.
applyFileNameTemplate(originalFileName) ==
    LET dots == {i \in 1..Len(originalFileName) : originalFileName[i] = Dot}
        lastDotIndex == IF dots = {} THEN -1 ELSE MaxOf(dots) - 1
        fileName == IF lastDotIndex > 0 THEN SubSeq(originalFileName, 1, lastDotIndex)
                    ELSE originalFileName
        extName == IF lastDotIndex > 0 THEN Substring(originalFileName, lastDotIndex)
                   ELSE EmptyStr
    IN  fileName \o extName

\* The key a file of the uploaded folder is stored under.
s3Key(prefix, folderName, relativePath) ==
    LET fileName == applyFileNameTemplate(basename(relativePath))
        fileDir == dirname(relativePath)
    IN  joinPath3(prefix, folderName,
                  IF fileDir = <<Dot>> THEN fileName ELSE joinPath(fileDir, fileName))

\* The local folders picked for upload, by name and the relative paths of their
\* files: "a" holding "n"; "n" holding "x" and "a/y"; "q" holding nothing.
LocalFolders ==
    { [name |-> <<97>>, files |-> <<<<110>>>>],
      [name |-> <<110>>, files |-> <<<<120>>, <<97, 47, 121>>>>],
      [name |-> <<113>>, files |-> << >>] }

UploadData == 9

InfoMessage(text) == [kind |-> "information", text |-> text]
ErrorMessage(text) == [kind |-> "error", text |-> text]

\* The node a command is invoked on and the bucket it works in: the node's bucket,
\* or without a node the bucket picked at the prompt.
CommandTargets ==
    {[node |-> n, bucket |-> n.bucket] : n \in Elements}
    \cup {[node |-> NoNode, bucket |-> b] : b \in Buckets}

PrefixOf(node) == IF node.type = "prefix" THEN node.key ELSE EmptyStr

\* s3Cache.invalidate(bucket, prefix); s3Explorer.refresh(node)
CommandCache(c, node, bucket, prefix) ==
    refreshElement(CacheInvalidate(c, bucket, prefix), node)

StartCommand(kind, target) ==
    [IdleCommand EXCEPT !.kind = kind, !.node = target.node, !.bucket = target.bucket,
                        !.prefix = PrefixOf(target.node), !.count = command.count + 1]

\* handleCreateFolder(node) with the name typed at the prompt.
CreateFolder(target, folderName, ok) ==
    /\ command.pc = "idle" /\ command.count < MaxCommands
    /\ \E c \in {[StartCommand("createFolder", target) EXCEPT !.folderName = folderName]} :
           IF ok
           THEN /\ store' = [store EXCEPT ![c.bucket] =
                                PutKey(@, folderKey(joinPath(c.prefix, folderName)),
                                       EmptyMarkerData)]
                /\ cache' = CommandCache(cache, c.node, c.bucket, c.prefix)
                /\ command' = [c EXCEPT !.pc = "done",
                                        !.message = InfoMessage("created successfully")]
           ELSE /\ UNCHANGED <<store, cache>>
                /\ command' = [c EXCEPT !.pc = "failed",
                                        !.message = ErrorMessage("Failed to create folder")]
    /\ UNCHANGED <<run, retry, find, twin, view, lister, client, upload, clipboard>>

\* handleUploadFolder(node) up to the loop: the picked folder is scanned.
UploadFolderStart(target, folder) ==
    /\ command.pc = "idle" /\ command.count < MaxCommands
    /\ \E c \in {[StartCommand("uploadFolder", target) EXCEPT
                      !.folderName = folder.name, !.files = folder.files]} :
           command' = IF Len(c.files) = 0
                      THEN [c EXCEPT !.pc = "noFiles",
                                     !.message = InfoMessage("No files found")]
                      ELSE [c EXCEPT !.pc = "boundary"]
    /\ UNCHANGED <<store, cache, run, retry, find, twin, view, lister, client, upload, clipboard>>

\* The user presses Cancel on the progress notification.
RequestCancel ==
    /\ command.pc \in {"boundary", "inflight"}
    /\ ~command.cancelRequested
    /\ command' = [command EXCEPT !.cancelRequested = TRUE]
    /\ UNCHANGED <<store, cache, run, retry, find, twin, view, lister, client, upload, clipboard>>

\* The top of a loop pass that does not look at the token.
BoundaryPcIgnoringCancel(c) == "inflight"

\* The top of a loop pass with the cancellation token as it is.
BoundaryPc(c) == IF c.cancelRequested THEN "cancelled" ELSE "inflight"

\* The top of a loop pass: a requested cancellation throws "Upload cancelled", which
\* the handler reports as information; otherwise the progress is reported and the
\* upload of the next file is issued.
UploadUnit ==
    /\ command.pc = "boundary"
    /\ command' =
          IF BoundaryPc(command) = "cancelled"
          THEN [command EXCEPT !.pc = "cancelled",
                               !.message = InfoMessage("Folder upload cancelled")]
          ELSE [command EXCEPT !.pc = "inflight", !.started = @ + 1, !.increments = @ + 1]
    /\ UNCHANGED <<store, cache, run, retry, find, twin, view, lister, client, upload, clipboard>>

\* await uploadFile(...) returns: the next loop pass, or after the last file the
\* cache invalidation, the refresh and the success message.
UploadCallOk ==
    /\ command.pc = "inflight"
    /\ store' = [store EXCEPT ![command.bucket] =
                    PutKey(@, s3Key(command.prefix, command.folderName,
                                    command.files[command.started]), UploadData)]
    /\ IF command.started = Len(command.files)
       THEN /\ command' = [command EXCEPT !.pc = "done", !.uploadedCount = @ + 1,
                                          !.message = InfoMessage("Uploaded folder")]
            /\ cache' = CommandCache(cache, command.node, command.bucket, command.prefix)
       ELSE /\ command' = [command EXCEPT !.pc = "boundary", !.uploadedCount = @ + 1]
            /\ cache' = cache
    /\ UNCHANGED <<run, retry, find, twin, view, lister, client, upload, clipboard>>

\* await uploadFile(...) throws.
UploadCallFails ==
    /\ command.pc = "inflight"
    /\ command' = [command EXCEPT !.pc = "failed",
                                  !.message = ErrorMessage("Failed to upload folder")]
    /\ UNCHANGED <<store, cache, run, retry, find, twin, view, lister, client, upload, clipboard>>

\* The handler has returned.
CommandReturn ==
    /\ command.pc \in {"done", "failed", "cancelled", "noFiles"}
    /\ command' = [IdleCommand EXCEPT !.count = command.count]
    /\ UNCHANGED <<store, cache, run, retry, find, twin, view, lister, client, upload, clipboard>>

CommandCreateFolder ==
    \E target \in CommandTargets, folderName \in NewNames, ok \in BOOLEAN :
        CreateFolder(target, folderName, ok)

CommandUploadFolder ==
    \E target \in CommandTargets, folder \in LocalFolders : UploadFolderStart(target, folder)

\* The entry a fresh listing of the scope's first page makes.
FreshEntry(st, bucket, prefix) ==
    LET Of(result) == CacheEntry(result.objects, result.prefixes, result.isTruncated,
                                 result.continuationToken)
    IN  Of(listObjects(st[bucket], prefix, EmptyStr))

\* The scopes of a store, and a cache holding the first page of some of them.
ScopesOf(st) ==
    UNION {{Scope(b, p) : p \in {EmptyStr} \cup FoldersOf(st[b])} : b \in Buckets}

WarmCache(st, scopes) == [sc \in scopes |-> FreshEntry(st, sc[1], sc[2])]

MutateStores == {[b1 |-> SmallTree, b2 |-> << >>]}

\* The tree has been expanded here and there before the command is invoked.
InitMutate ==
    /\ store \in MutateStores
    /\ cache \in {WarmCache(store, scopes) : scopes \in SUBSET ScopesOf(store)}
    /\ run = IdleRun
    /\ retry = IdleRetry
    /\ find = IdleFind
    /\ twin = IdleTwin
    /\ view = IdleView
    /\ command = IdleCommand
    /\ lister = IdleLister
    /\ client = IdleClient
    /\ upload = IdleUpload
    /\ clipboard = NoClipboard

MutateNext ==
    \/ CommandCreateFolder \/ CommandUploadFolder \/ RequestCancel \/ UploadUnit
    \/ UploadCallOk \/ UploadCallFails \/ CommandReturn

SpecMutate == InitMutate /\ [][MutateNext]_vars

-----------------------------------------------------------------------------
(* listAllObjectsRecursive page by page (specification SpecList).             *)

\* The paged tree with the marker of its nested folder "d/<5000>/".
ListPaged == PutKey(PagedTree, <<100, 47, 5000, 47>>, EmptyMarkerData)

ListStores == SmallStores \cup {[b1 |-> ListPaged, b2 |-> << >>]}

\* The prefixes asked for: none, the folders of the bucket, a folder it has not.
ListPrefixes(objs) == {EmptyStr, <<113, 47>>} \cup FoldersOf(objs)

\* The maxObjects asked for: undefined, 0, 1, 2.
MaxObjectsChoices == {NoMax, 0, 1, 2}

\* response.Contents without the nested folder markers.
KeptContentsWithoutMarkers(contents, prefix) ==
    LET NoMarker(k) == ~EndsWithSlash(k)
    IN  SelectSeq(contents, NoMarker)

\* (response.Contents || []).filter(obj => obj.Key !== prefix)
KeptContents(contents, prefix) ==
    LET NotThePrefix(k) == k # prefix
    IN  SelectSeq(contents, NotThePrefix)

\* The loop going on for as long as the limit is not reached.
AfterPagePcUntilLimit(maxObjects, totalFetched, continuationToken) ==
    IF IsSetMax(maxObjects) /\ totalFetched >= maxObjects THEN "done" ELSE "paging"

\* After a page: break at the limit; while (continuationToken).
AfterPagePc(maxObjects, totalFetched, continuationToken) ==
    IF IsSetMax(maxObjects) /\ totalFetched >= maxObjects THEN "done"
    ELSE IF continuationToken # EmptyStr THEN "paging"
    ELSE "done"

ListArgs(l) == <<l.bucket, l.prefix, l.maxObjects>>

\* listAllObjectsRecursive(bucket, prefix, maxObjects) up to the loop.
ListAllStart(bucket, prefix, maxObjects) ==
    /\ lister.pc = "idle"
    /\ lister' = [IdleLister EXCEPT !.pc = "paging", !.bucket = bucket, !.prefix = prefix,
                                    !.maxObjects = maxObjects, !.earlier = lister.earlier]
    /\ UNCHANGED <<store, cache, run, retry, find, twin, view, command, client, upload, clipboard>>

\* One pass of the do-while loop whose ListObjectsV2 call succeeds.
ListAllPage ==
    /\ lister.pc = "paging"
    /\ \E response \in
           {ListFlatPage(store[lister.bucket], lister.prefix, lister.continuationToken,
                         IF IsSetMax(lister.maxObjects)
                         THEN Min2(MAX_KEYS_PER_REQUEST,
                                   lister.maxObjects - Len(lister.allObjects))
                         ELSE MAX_KEYS_PER_REQUEST)} :
       \E all \in {lister.allObjects \o KeptContents(response.contents, lister.prefix)} :
           lister' = [lister EXCEPT
                         !.allObjects = all,
                         !.continuationToken = response.nextToken,
                         !.pages = @ + 1,
                         !.pc = AfterPagePc(lister.maxObjects, Len(all), response.nextToken)]
    /\ UNCHANGED <<store, cache, run, retry, find, twin, view, command, client, upload, clipboard>>

\* The closure run again with the accumulator of the run that failed.
RerunClosureKeepingObjects(l) ==
    [l EXCEPT !.continuationToken = EmptyStr, !.pages = 0,
              !.attempt = @ + 1, !.failedAfter = l.pages]

\* withRetry calls the closure again: allObjects, continuationToken and totalFetched
\* are its locals, so the enumeration starts over.
RerunClosure(l) ==
    [l EXCEPT !.allObjects = << >>, !.continuationToken = EmptyStr, !.pages = 0,
              !.attempt = @ + 1, !.failedAfter = l.pages]

\* One pass whose call throws.  withRetry either gives up (a non-retryable error, or
\* the last attempt), and the S3Error leaves the function, or runs the closure again.
ListAllPageFails ==
    /\ lister.pc = "paging"
    /\ \E givesUp \in BOOLEAN :
           /\ ~givesUp => lister.attempt < maxRetries
           /\ lister' = IF givesUp
                        THEN [lister EXCEPT !.pc = "failed", !.failedAfter = lister.pages]
                        ELSE RerunClosure(lister)
    /\ UNCHANGED <<store, cache, run, retry, find, twin, view, command, client, upload, clipboard>>

\* The caller has the result; it is remembered as the result of the earlier call.
ListAllReturn ==
    /\ lister.pc \in {"done", "failed"}
    /\ lister' = [IdleLister EXCEPT
                     !.earlier = IF lister.pc = "done"
                                 THEN <<[args |-> ListArgs(lister),
                                         result |-> lister.allObjects]>>
                                 ELSE lister.earlier]
    /\ UNCHANGED <<store, cache, run, retry, find, twin, view, command, client, upload, clipboard>>

ListInvoke ==
    \E bucket \in Buckets :
        \E prefix \in ListPrefixes(store[bucket]), maxObjects \in MaxObjectsChoices :
            ListAllStart(bucket, prefix, maxObjects)

InitList ==
    /\ store \in ListStores
    /\ cache = EmptyCache
    /\ run = IdleRun
    /\ retry = IdleRetry
    /\ find = IdleFind
    /\ twin = IdleTwin
    /\ view = IdleView
    /\ command = IdleCommand
    /\ lister = IdleLister
    /\ client = IdleClient
    /\ upload = IdleUpload
    /\ clipboard = NoClipboard

ListNext == ListInvoke \/ ListAllPage \/ ListAllPageFails \/ ListAllReturn

SpecList == InitList /\ [][ListNext]_vars

-----------------------------------------------------------------------------
(* The S3 client and its cache: client.ts (specification SpecClient).         *)

MaxClients == 3     \* the instances created in one behaviour

MaxEdits == 3       \* the edits of the settings in one behaviour

\* The endpoints the settings are given: none, two that the URL constructor rejects,
\* one of another protocol, two of protocol https.
EndpointUrls == {"", " ", "not-a-url", "http://h", "https://h", "https://g"}

\* new URL(url).protocol for the endpoints above; "" where the constructor throws.
URLProtocol(url) ==
    CASE url \in {"https://h", "https://g"} -> "https:"
      [] url = "http://h" -> "http:"
      [] OTHER -> ""

\* isValidUrl that takes every URL the constructor accepts.
isValidUrlAnyProtocol(url) == URLProtocol(url) # ""

\* isValidUrl(url): the URL parses and its protocol is "https:".
isValidUrl(url) == URLProtocol(url) = "https:"

\* validateConfig(config): the error messages, in the order they are pushed.
validateConfig(config) ==
    (IF config.endpointUrl = "" THEN <<"Endpoint URL is required">> ELSE << >>)
    \o (IF config.accessKeyId = "" THEN <<"Access Key ID is required">> ELSE << >>)
    \o (IF config.secretAccessKey = "" THEN <<"Secret Access Key is required">> ELSE << >>)
    \o (IF config.endpointUrl # "" /\ ~isValidUrl(config.endpointUrl)
        THEN <<"Endpoint URL must be a valid HTTPS URL">> ELSE << >>)

\* configsEqual without the region.
configsEqualIgnoringRegion(a, b) ==
    /\ a.endpointUrl = b.endpointUrl
    /\ a.accessKeyId = b.accessKeyId
    /\ a.secretAccessKey = b.secretAccessKey
    /\ a.forcePathStyle = b.forcePathStyle

\* configsEqual(a, b)
configsEqual(a, b) ==
    /\ a.endpointUrl = b.endpointUrl
    /\ a.region = b.region
    /\ a.accessKeyId = b.accessKeyId
    /\ a.secretAccessKey = b.secretAccessKey
    /\ a.forcePathStyle = b.forcePathStyle

\* The values a setting can be given.
SettingValues ==
    [endpointUrl |-> EndpointUrls,
     region |-> {"us-east-1", "auto"},
     accessKeyId |-> {"", "k1", "k2"},
     secretAccessKey |-> {"", "s1"},
     forcePathStyle |-> BOOLEAN,
     maxPreviewSizeBytes |-> {10485760, 1024}]

\* The user edits one setting.
SetConfig(field, value) ==
    /\ client.config[field] # value
    /\ client.edits < MaxEdits
    /\ client' = [client EXCEPT !.config[field] = value, !.edits = @ + 1,
                                !.op = "setConfig"]
    /\ UNCHANGED <<store, cache, run, retry, find, twin, view, command, lister, upload, clipboard>>

\* getS3Client(forceNew)
getS3Client(forceNew) ==
    /\ \E configErrors \in {validateConfig(client.config)} :
        IF Len(configErrors) > 0
        THEN client' = [client EXCEPT !.op = "getS3Client", !.forceNew = forceNew,
                                      !.result = NoClient, !.thrown = configErrors]
        ELSE IF /\ ~forceNew
                /\ client.cachedClient # NoClient
                /\ client.cachedConfig # NoConfig
                /\ configsEqual(client.config, client.cachedConfig)
        THEN client' = [client EXCEPT !.op = "getS3Client", !.forceNew = forceNew,
                                      !.result = client.cachedClient, !.thrown = << >>,
                                      !.earlierConfig = client.config,
                                      !.earlierResult = client.cachedClient,
                                      !.sinceClear = TRUE]
        ELSE /\ client.created < MaxClients
             /\ client' = [client EXCEPT !.op = "getS3Client", !.forceNew = forceNew,
                                         !.created = @ + 1,
                                         !.cachedClient = client.created + 1,
                                         !.cachedConfig = client.config,
                                         !.result = client.created + 1, !.thrown = << >>,
                                         !.earlierConfig = client.config,
                                         !.earlierResult = client.created + 1,
                                         !.sinceClear = TRUE]
    /\ UNCHANGED <<store, cache, run, retry, find, twin, view, command, lister, upload, clipboard>>

\* clearClientCache(): the cached client, if there is one, is destroyed and dropped.
clearClientCache ==
    /\ client' = IF client.cachedClient # NoClient
                 THEN [client EXCEPT !.cachedClient = NoClient, !.cachedConfig = NoConfig,
                                     !.op = "clearClientCache", !.sinceClear = FALSE,
                                     !.destroyed = @ \cup {client.cachedClient}]
                 ELSE [client EXCEPT !.op = "clearClientCache", !.sinceClear = FALSE]
    /\ UNCHANGED <<store, cache, run, retry, find, twin, view, command, lister, upload, clipboard>>

ClientSetConfig ==
    \E field \in DOMAIN SettingValues : \E value \in SettingValues[field] :
        SetConfig(field, value)

ClientGet == \E forceNew \in BOOLEAN : getS3Client(forceNew)

InitClient ==
    /\ store = [b \in Buckets |-> << >>]
    /\ cache = EmptyCache
    /\ run = IdleRun
    /\ retry = IdleRetry
    /\ find = IdleFind
    /\ twin = IdleTwin
    /\ view = IdleView
    /\ command = IdleCommand
    /\ lister = IdleLister
    /\ client = IdleClient
    /\ upload = IdleUpload
    /\ clipboard = NoClipboard

ClientNext == ClientSetConfig \/ ClientGet \/ clearClientCache

SpecClient == InitClient /\ [][ClientNext]_vars

-----------------------------------------------------------------------------
(* Two commands in flight (specification SpecRace).  A command handler is an  *)
(* async function registered with registerCommand: while one is suspended on  *)
(* an awaited call the user can invoke another, which runs up to its own      *)
(* first await.  run is the first handler, twin.run the second; both act on   *)
(* the same buckets.                                                          *)

RaceKinds == {"delete", "moveFolder", "rename"}

\* The handler a command starts on a folder node of bucket b1; a move goes to the
\* root of b2, a rename gives the name "n".
RaceStart(kind, src) ==
    IF kind = "delete" THEN StartRun("delete", "b1", src, "b1", EmptyStr, store)
    ELSE IF kind = "rename"
    THEN StartRun("rename", "b1", src, "b1", renamedPrefix(src, <<110>>), store)
    ELSE StartRun("moveFolder", "b1", src, "b2", targetFolderPrefix(EmptyStr, src), store)

\* The command callbacks of registerCommands call their handler at once: there is no
\* test of, and no wait for, a handler that is already running.
RaceInvokeFirst ==
    /\ run.pc = "idle"
    /\ \E kind \in RaceKinds, src \in FoldersOf(store["b1"]) : run' = RaceStart(kind, src)
    /\ UNCHANGED <<store, cache, retry, find, twin, view, command, lister, client, upload,
                   clipboard>>

RaceInvokeSecond ==
    /\ twin.run.pc = "idle"
    /\ \E kind \in RaceKinds, src \in FoldersOf(store["b1"]) :
           twin' = [twin EXCEPT !.run = RaceStart(kind, src)]
    /\ UNCHANGED <<store, cache, run, retry, find, view, command, lister, client, upload,
                   clipboard>>

\* Whether the awaited call of r may succeed or fail now.
RaceOutcomes(r) ==
    {ok \in BOOLEAN : (ok => CanSucceed(r, store))
                      /\ (~ok => r.failures < MaxFailures \/ ~CanSucceed(r, store))}

\* The awaited call of the first handler returns and the handler runs to its next await.
RaceFirstCall ==
    /\ Running(run)
    /\ \E ok \in RaceOutcomes(run) :
         \E next \in {Step(run, store, ok)} :
            /\ run' = next.run
            /\ store' = next.store
            /\ cache' = IF next.run.pc = "done" THEN FinishCache(run, cache) ELSE cache
    /\ UNCHANGED <<retry, find, twin, view, command, lister, client, upload, clipboard>>

\* The same for the second handler.
RaceSecondCall ==
    /\ Running(twin.run)
    /\ \E ok \in RaceOutcomes(twin.run) :
         \E next \in {Step(twin.run, store, ok)} :
            /\ twin' = [twin EXCEPT !.run = next.run]
            /\ store' = next.store
            /\ cache' = IF next.run.pc = "done" THEN FinishCache(twin.run, cache) ELSE cache
    /\ UNCHANGED <<run, retry, find, view, command, lister, client, upload, clipboard>>

InitRace ==
    /\ store \in SmallStores
    /\ cache = EmptyCache
    /\ run = IdleRun
    /\ retry = IdleRetry
    /\ find = IdleFind
    /\ twin = IdleTwin
    /\ view = IdleView
    /\ command = IdleCommand
    /\ lister = IdleLister
    /\ client = IdleClient
    /\ upload = IdleUpload
    /\ clipboard = NoClipboard

RaceNext == RaceInvokeFirst \/ RaceInvokeSecond \/ RaceFirstCall \/ RaceSecondCall

SpecRace == InitRace /\ [][RaceNext]_vars

-----------------------------------------------------------------------------
(* Copy, Cut and Paste (specification SpecClip).  handleCopy and handleCut    *)
(* assign the clipboard; handlePaste hands the clipboard's item to a paste    *)
(* handler, awaits it, and then looks at the clipboard again.  run is the     *)
(* first Paste in flight, twin.run a second one invoked meanwhile.            *)

\* The nodes Copy and Cut are invoked on: the file "s" and the folder "a/a/" of b1.
ClipNodes ==
    {Node("object", "b1", <<115>>, EmptyStr), Node("prefix", "b1", <<97, 47, 97, 47>>, EmptyStr)}

\* The nodes Paste is invoked on: the bucket b2 and its folder "e/".
PasteTargets ==
    {Node("bucket", "b2", EmptyStr, EmptyStr), Node("prefix", "b2", <<101, 47>>, EmptyStr)}

\* The item handleCopy / handleCut store for a file or folder node.
ClipboardItem(node, operation) ==
    IF node.type = "object"
    THEN [bucket |-> node.bucket, key |-> node.key, prefix |-> EmptyStr,
          operation |-> operation, itemType |-> "file"]
    ELSE [bucket |-> node.bucket, key |-> EmptyStr, prefix |-> node.key,
          operation |-> operation, itemType |-> "folder"]

\* handleCopy(node)
handleCopy(node) ==
    /\ node.type \in {"object", "prefix"}
    /\ clipboard' = ClipboardItem(node, "copy")
    /\ UNCHANGED <<store, cache, run, retry, find, twin, view, command, lister, client, upload>>

\* handleCut(node)
handleCut(node) ==
    /\ node.type \in {"object", "prefix"}
    /\ clipboard' = ClipboardItem(node, "cut")
    /\ UNCHANGED <<store, cache, run, retry, find, twin, view, command, lister, client, upload>>

\* handlePaste(node) up to its await: handlePasteFile (a cut file is moved with
\* moveObject) or handlePasteFolder is entered with the item the clipboard holds now.
PasteStart(item, node) ==
    IF item.itemType = "file"
    THEN StartRun("moveFile", item.bucket, item.key, node.bucket,
                  targetFileKey(PrefixOf(node), item.key), store)
    ELSE StartRun(IF item.operation = "cut" THEN "pasteCut" ELSE "pasteCopy",
                  item.bucket, item.prefix, node.bucket,
                  targetFolderPrefix(PrefixOf(node), item.prefix), store)

\* The clipboard item a paste handler was entered with.
PastedItem(r) ==
    IF r.kind = "moveFile"
    THEN [bucket |-> r.srcBucket, key |-> r.src, prefix |-> EmptyStr,
          operation |-> "cut", itemType |-> "file"]
    ELSE [bucket |-> r.srcBucket, key |-> EmptyStr, prefix |-> r.src,
          operation |-> IF r.kind = "pasteCut" THEN "cut" ELSE "copy",
          itemType |-> "folder"]

\* A copied file is pasted with copyObject alone; the inputs leave that case out.
CanPaste(item) ==
    item # NoClipboard /\ ~(item.itemType = "file" /\ item.operation = "copy")

\* After the awaited paste handler: "if (clipboard.operation === 'cut') clipboard =
\* undefined", on the clipboard as it is now; with the clipboard undefined the read
\* throws and the assignment is not reached.
AfterPaste(clip) ==
    IF clip # NoClipboard /\ clip.operation = "cut" THEN NoClipboard ELSE clip

PasteFirst ==
    /\ run.pc = "idle"
    /\ CanPaste(clipboard)
    /\ \E node \in PasteTargets : run' = PasteStart(clipboard, node)
    /\ UNCHANGED <<store, cache, retry, find, twin, view, command, lister, client, upload,
                   clipboard>>

PasteSecond ==
    /\ twin.run.pc = "idle"
    /\ run.pc # "idle"
    /\ CanPaste(clipboard)
    /\ \E node \in PasteTargets : twin' = [twin EXCEPT !.run = PasteStart(clipboard, node)]
    /\ UNCHANGED <<store, cache, run, retry, find, view, command, lister, client, upload,
                   clipboard>>

\* The rest of handlePaste for the first handler: after a handler that returned, the
\* clipboard test; after one that threw, the catch.
PasteFirstReturn ==
    /\ run.pc \in {"done", "failed"}
    /\ run' = [run EXCEPT !.pc = "returned"]
    /\ clipboard' = IF run.pc = "done" THEN AfterPaste(clipboard) ELSE clipboard
    /\ UNCHANGED <<store, cache, retry, find, twin, view, command, lister, client, upload>>

PasteSecondReturn ==
    /\ twin.run.pc \in {"done", "failed"}
    /\ twin' = [twin EXCEPT !.run.pc = "returned"]
    /\ clipboard' = IF twin.run.pc = "done" THEN AfterPaste(clipboard) ELSE clipboard
    /\ UNCHANGED <<store, cache, run, retry, find, view, command, lister, client, upload>>

ClipCopy == \E node \in ClipNodes : handleCopy(node)

ClipCut == \E node \in ClipNodes : handleCut(node)

InitClip ==
    /\ store \in SmallStores
    /\ cache = EmptyCache
    /\ run = IdleRun
    /\ retry = IdleRetry
    /\ find = IdleFind
    /\ twin = IdleTwin
    /\ view = IdleView
    /\ command = IdleCommand
    /\ lister = IdleLister
    /\ client = IdleClient
    /\ upload = IdleUpload
    /\ clipboard = NoClipboard

ClipNext ==
    \/ ClipCopy \/ ClipCut \/ PasteFirst \/ PasteSecond
    \/ RaceFirstCall \/ RaceSecondCall \/ PasteFirstReturn \/ PasteSecondReturn

SpecClip == InitClip /\ [][ClipNext]_vars

-----------------------------------------------------------------------------
(* uploadFile: simple and multipart uploads, ops.ts (specification SpecUpload). *)

MULTIPART_THRESHOLD == 100 * 1024 * 1024

PART_SIZE == 10 * 1024 * 1024

\* The sizes in bytes of the files uploaded: small ones, and files around the
\* threshold and around a multiple of the part size.
FileSizes ==
    {0, 1, MULTIPART_THRESHOLD, MULTIPART_THRESHOLD + 1, 11 * PART_SIZE,
     11 * PART_SIZE + 1, 12 * PART_SIZE}

\* The key uploaded to, in bucket b1.
UploadKey == <<120>>

\* The id the service gives the multipart upload.
TheUploadId == 1

\* A request sent: t is "put", "create", "part", "complete" or "abort".
UploadEv(t, uploadId, part, bytes, ok) ==
    [t |-> t, uploadId |-> uploadId, part |-> part, bytes |-> bytes, ok |-> ok]

\* A catch block that rethrows without aborting.
OnFailurePcWithoutAbort(uploadId) == "failed"

\* The catch block of uploadFileMultipart: if (uploadId) the upload is aborted, and
\* then the S3Error is thrown.
OnFailurePc(uploadId) == IF uploadId # NoUpload THEN "abort" ELSE "failed"

\* uploadFile(bucket, key, filePath) up to the first request.
UploadFile(size) ==
    /\ upload.pc = "idle"
    /\ upload' = [upload EXCEPT !.bucket = "b1", !.key = UploadKey, !.size = size,
                                !.pc = IF size > MULTIPART_THRESHOLD THEN "create" ELSE "put"]
    /\ UNCHANGED <<store, cache, run, retry, find, twin, view, command, lister, client, clipboard>>

\* uploadFileSimple: await putObject(bucket, key, data, contentType)
UploadPut(ok) ==
    /\ upload.pc = "put"
    /\ upload' = [upload EXCEPT !.log = Append(@, UploadEv("put", NoUpload, 0, upload.size, ok)),
                                !.pc = IF ok THEN "done" ELSE "failed",
                                !.thrown = IF ok THEN "none" ELSE "put"]
    /\ store' = IF ok THEN [store EXCEPT !["b1"] = PutKey(@, UploadKey, UploadData)] ELSE store
    /\ UNCHANGED <<cache, run, retry, find, twin, view, command, lister, client, clipboard>>

\* await client.send(new CreateMultipartUploadCommand(...)); uploadId = UploadId
UploadCreate(ok) ==
    /\ upload.pc = "create"
    /\ upload' = [upload EXCEPT
                     !.log = Append(@, UploadEv("create", IF ok THEN TheUploadId ELSE NoUpload,
                                                0, 0, ok)),
                     !.uploadId = IF ok THEN TheUploadId ELSE NoUpload,
                     !.pc = IF ok THEN "open" ELSE OnFailurePc(NoUpload),
                     !.thrown = IF ok THEN "none" ELSE "create"]
    /\ UNCHANGED <<store, cache, run, retry, find, twin, view, command, lister, client, clipboard>>

\* await fs.promises.open(filePath, "r"); totalParts = Math.ceil(stat.size / PART_SIZE)
UploadOpen(ok) ==
    /\ upload.pc = "open"
    /\ upload' = IF ok
                 THEN [upload EXCEPT !.totalParts = CeilDiv(upload.size, PART_SIZE),
                                     !.partNumber = 1, !.pc = "part"]
                 ELSE [upload EXCEPT !.pc = OnFailurePc(upload.uploadId), !.thrown = "open"]
    /\ UNCHANGED <<store, cache, run, retry, find, twin, view, command, lister, client, clipboard>>

\* One pass of the part loop: the read of the part's bytes, then the UploadPart
\* request; the part is pushed when the request succeeded.  A failure leaves the
\* loop through the finally block.  outcome: "ok", "read" (the read throws), "send".
UploadPart(outcome) ==
    /\ upload.pc = "part"
    /\ \E start \in {(upload.partNumber - 1) * PART_SIZE} :
       \E bytes \in {Min2(start + PART_SIZE, upload.size) - start} :
         upload' =
           IF outcome = "read"
           THEN [upload EXCEPT !.pc = "closeThrown", !.thrown = "read"]
           ELSE IF outcome = "send"
           THEN [upload EXCEPT
                    !.log = Append(@, UploadEv("part", upload.uploadId, upload.partNumber,
                                               bytes, FALSE)),
                    !.pc = "closeThrown", !.thrown = "part"]
           ELSE [upload EXCEPT
                    !.log = Append(@, UploadEv("part", upload.uploadId, upload.partNumber,
                                               bytes, TRUE)),
                    !.parts = Append(@, upload.partNumber),
                    !.partNumber = @ + 1,
                    !.pc = IF upload.partNumber + 1 <= upload.totalParts
                           THEN "part" ELSE "close"]
    /\ UNCHANGED <<store, cache, run, retry, find, twin, view, command, lister, client, clipboard>>

\* finally { await fileHandle.close() }: after the loop, or with an error on its way out.
UploadClose(ok) ==
    /\ upload.pc \in {"close", "closeThrown"}
    /\ upload' =
         IF upload.pc = "close" /\ ok THEN [upload EXCEPT !.pc = "complete"]
         ELSE [upload EXCEPT !.pc = OnFailurePc(upload.uploadId),
                             !.thrown = IF ok THEN @ ELSE "close"]
    /\ UNCHANGED <<store, cache, run, retry, find, twin, view, command, lister, client, clipboard>>

\* await client.send(new CompleteMultipartUploadCommand({..., Parts: parts}))
UploadComplete(ok) ==
    /\ upload.pc = "complete"
    /\ upload' = [upload EXCEPT
                     !.log = Append(@, UploadEv("complete", upload.uploadId,
                                                Len(upload.parts), 0, ok)),
                     !.pc = IF ok THEN "done" ELSE OnFailurePc(upload.uploadId),
                     !.thrown = IF ok THEN @ ELSE "complete"]
    /\ store' = IF ok THEN [store EXCEPT !["b1"] = PutKey(@, UploadKey, UploadData)] ELSE store
    /\ UNCHANGED <<cache, run, retry, find, twin, view, command, lister, client, clipboard>>

\* try { await client.send(new AbortMultipartUploadCommand(...)) } catch {}; throw
UploadAbort(ok) ==
    /\ upload.pc = "abort"
    /\ upload' = [upload EXCEPT
                     !.log = Append(@, UploadEv("abort", upload.uploadId, 0, 0, ok)),
                     !.pc = "failed"]
    /\ UNCHANGED <<store, cache, run, retry, find, twin, view, command, lister, client, clipboard>>

UploadInvoke == \E size \in FileSizes : UploadFile(size)

UploadPutReturns == \E ok \in BOOLEAN : UploadPut(ok)

UploadCreateReturns == \E ok \in BOOLEAN : UploadCreate(ok)

UploadOpenReturns == \E ok \in BOOLEAN : UploadOpen(ok)

UploadPartReturns == \E outcome \in {"ok", "read", "send"} : UploadPart(outcome)

UploadCloseReturns == \E ok \in BOOLEAN : UploadClose(ok)

UploadCompleteReturns == \E ok \in BOOLEAN : UploadComplete(ok)

UploadAbortReturns == \E ok \in BOOLEAN : UploadAbort(ok)

InitUpload ==
    /\ store \in SmallStores
    /\ cache = EmptyCache
    /\ run = IdleRun
    /\ retry = IdleRetry
    /\ find = IdleFind
    /\ twin = IdleTwin
    /\ view = IdleView
    /\ command = IdleCommand
    /\ lister = IdleLister
    /\ client = IdleClient
    /\ upload = IdleUpload
    /\ clipboard = NoClipboard

UploadNext ==
    \/ UploadInvoke \/ UploadPutReturns \/ UploadCreateReturns \/ UploadOpenReturns
    \/ UploadPartReturns \/ UploadCloseReturns \/ UploadCompleteReturns \/ UploadAbortReturns

SpecUpload == InitUpload /\ [][UploadNext]_vars

-----------------------------------------------------------------------------
(* Properties of the bulk operations (specification Spec).                    *)

\* The deletes a move issues for the keys it enumerated, by position in the log.
SourceDeletes(r) ==
    {n \in 1..Len(r.log) : r.log[n].t = "delete" /\ r.log[n].phase = "processing"}

\* C1: in every move (single object, folder move, rename, paste of a cut folder,
\* drag-and-drop) a source key is deleted only after the copy of that key to its
\* destination key has succeeded; after a failed copy of a key the move issues no
\* delete of it.
C1_DeleteOnlyAfterCopy ==
    \A n \in SourceDeletes(run) :
        LET key == run.log[n].key
        IN  /\ \E m \in 1..(n - 1) :
                 /\ run.log[m].t = "copy" /\ run.log[m].ok
                 /\ run.log[m].bucket = run.srcBucket /\ run.log[m].key = key
                 /\ run.log[m].tb = run.dstBucket
                 /\ run.log[m].tk = targetKeyOf(run, key)
            /\ \A m \in 1..Len(run.log) :
                 (run.log[m].t = "copy" /\ run.log[m].key = key) => run.log[m].ok

\* A folder move that has deleted two source keys, each after its copy.
C1_Witness ==
    /\ run.kind \in {"moveFolder", "rename", "drop", "pasteCut"}
    /\ Cardinality(SourceDeletes(run)) >= 2

\* C2 as stated: after a folder move in which every call succeeded, every enumerated
\* key is present at its destination key and no key of the source bucket begins
\* with the source prefix.
C2_MoveLeavesAllAtDestination ==
    (run.kind \in {"moveFolder", "drop"} /\ run.pc = "done"
        /\ run.failures = 0 /\ run.starts = 1)
    => /\ \A i \in 1..Len(run.objects) :
            HasKey(store[run.dstBucket], targetKeyOf(run, run.objects[i]))
       /\ ~SourceShown(run, store)

\* The batched deletes of a log, in order.
BatchCalls(log) ==
    LET IsBatch(e) == e.t = "deleteBatch" IN SelectSeq(log, IsBatch)

\* C3: a folder delete over N > 0 enumerated keys issues, after the listing, exactly
\* ceil(N / 1000) batched deletes, batch b carrying the keys (b-1)*1000+1 ..
\* min(b*1000, N) of the enumeration, and then one delete of the folder marker.
C3_DeleteBatches ==
    (run.kind = "delete" /\ run.pc = "done" /\ Len(run.objects) > 0)
    => LET calls == Calls(run.log)
           N == Len(run.objects)
           B == (N + batchSize - 1) \div batchSize
       IN  /\ Len(calls) = B + 2
           /\ calls[1].t = "list"
           /\ \A b \in 1..B :
                /\ calls[b + 1].t = "deleteBatch"
                /\ Len(calls[b + 1].keys) <= batchSize
                /\ calls[b + 1].keys
                     = SubSeq(run.objects, (b - 1) * batchSize + 1, Min2(b * batchSize, N))
           /\ calls[B + 2].t = "delete"
           /\ calls[B + 2].key = run.src

\* A finished delete of a folder of two full batches and one more key.
C3_Witness ==
    /\ run.kind = "delete" /\ run.pc = "done"
    /\ Len(run.objects) = 2 * batchSize + 1
    /\ Len(BatchCalls(run.log)) = 3

\* The batched deletes whose response listed per-key errors, by position in the log.
ReportedBatches(r) ==
    {n \in 1..Len(r.log) : r.log[n].t = "deleteBatch" /\ r.log[n].errors # {}}

Kept(r, st, o) ==
    \/ HasKey(st[r.srcBucket], o.key) /\ DataOf(st[r.srcBucket], o.key) = o.data
    \/ /\ HasKey(st[r.dstBucket], targetKeyOf(r, o.key))
       /\ DataOf(st[r.dstBucket], targetKeyOf(r, o.key)) = o.data

\* C8 as stated: when a folder move or folder delete fails at one call and is run
\* again without further failure, no enumerated object's data is lost on the way,
\* and at the end every originally enumerated object is at its destination key (for
\* a delete: absent) and no key is left under the source prefix.
C8_RerunConverges ==
    /\ (run.kind = "moveFolder" /\ run.failures = 1) =>
         \A i \in 1..Len(run.orig) : Kept(run, store, run.orig[i])
    /\ (run.kind \in {"moveFolder", "delete"} /\ run.pc = "done"
            /\ run.starts = 2 /\ run.failures = 1)
       => /\ ~SourceShown(run, store)
          /\ \A i \in 1..Len(run.orig) :
               IF run.kind = "delete"
               THEN ~HasKey(store[run.srcBucket], run.orig[i].key)
               ELSE /\ HasKey(store[run.dstBucket], targetKeyOf(run, run.orig[i].key))
                    /\ DataOf(store[run.dstBucket], targetKeyOf(run, run.orig[i].key))
                         = run.orig[i].data

-----------------------------------------------------------------------------
(* Properties of withRetry (specification SpecRetry).                         *)

\* Every response so far is the given HTTP status.
AllResponses(status) ==
    /\ Len(retry.responses) > 0
    /\ \A n \in 1..Len(retry.responses) : retry.responses[n].meta = status

\* C5 as stated: when listBuckets gets a 503 on every attempt, the error is raised
\* only after maxRetries + 1 invocations, with a growing delay between them.
C5_ListBuckets503Retried ==
    (retry.op = "listBuckets" /\ retry.pc = "raised" /\ AllResponses(503))
    => /\ Len(retry.responses) = maxRetries + 1
       /\ Len(retry.delays) = maxRetries
       /\ \A n \in 1..(Len(retry.delays) - 1) : retry.delays[n] < retry.delays[n + 1]

\* C6: a response with a 4xx status other than 429 ends the call: it is the last
\* invocation, the error is raised, and no delay is taken after it.
C6_ClientErrorNotRetried ==
    \A n \in 1..Len(retry.responses) :
        IsClientError(retry.responses[n])
        => /\ n = Len(retry.responses)
           /\ retry.pc = "raised"
           /\ Len(retry.delays) = n - 1

\* A listing call answered 403 on its first attempt and raised.
C6_Witness ==
    /\ retry.op = "listObjects" /\ retry.pc = "raised"
    /\ Len(retry.responses) = 1 /\ retry.responses[1].meta = 403
    /\ retry.delays = << >>

\* C7 as stated: a network-level failure (no HTTP status) is retried with backoff:
\* the call is not raised on it while attempts remain.
C7_NetworkFailureRetried ==
    (Len(retry.responses) > 0
        /\ IsNetworkError(retry.responses[Len(retry.responses)])
        /\ Len(retry.responses) <= maxRetries)
    => /\ retry.pc = "sleep"
       /\ Len(retry.delays) = Len(retry.responses)

-----------------------------------------------------------------------------
(* Properties of rename (SpecTwin) and of findNode (SpecFind).                *)

LevelScope(segs, j) ==
    IF j = 1 THEN EmptyStr ELSE Join(SubSeq(segs, 1, j - 1)) \o <<Slash>>

LevelEntry(key, segs, j) ==
    IF j < Len(segs) \/ EndsWithSlash(key)
    THEN [isPrefix |-> TRUE, name |-> Join(SubSeq(segs, 1, j)) \o <<Slash>>]
    ELSE [isPrefix |-> FALSE, name |-> key]

\* Every ancestor prefix of key and key itself are on some page of the listing of
\* their parent scope.
Listed(st, bucket, key) ==
    LET segs == segments(key)
    IN  /\ Len(segs) > 0
        /\ \A j \in 1..Len(segs) :
             LET entries == Entries(st[bucket], LevelScope(segs, j))
             IN  \E n \in 1..Len(entries) : entries[n] = LevelEntry(key, segs, j)

\* C10 as stated: findNode returns not-found for no key whose ancestor prefixes and
\* itself are listed, whichever page they are on.
C10_FindNodeFindsListedKey ==
    find.pc = "notFound" => ~Listed(store, find.bucket, find.key)

-----------------------------------------------------------------------------
(* Properties of the explorer (specifications SpecView and SpecRecover).      *)

\* The scope a bucket or prefix node stands for.
ScopeOf(element) == Scope(element.bucket, element.key)

\* Some key of the folder's subtree contains the filter text: the folder's own path,
\* a descendant folder's path or a descendant object's key.
SubtreeMatches(objs, prefix) ==
    \E k \in KeysOf(objs) : StartsWith(k, prefix) /\ fuzzyMatch(view.filterText, k)

IsShown(node) == \E n \in 1..Len(view.shown) : view.shown[n] = node

\* C11 as stated: with a filter active, getChildren of a bucket or prefix shows a
\* child folder exactly when the filter text occurs in the folder's path or in the
\* path of some folder or object anywhere below it.
C11_FolderShownIffSubtreeMatches ==
    (view.op = "getChildren" /\ view.message = "none" /\ view.filterActive)
    => \A n \in 1..Len(CacheGet(cache, view.element.bucket, view.element.key).prefixes) :
          LET p == CacheGet(cache, view.element.bucket, view.element.key).prefixes[n]
          IN  IsShown(Node("prefix", view.element.bucket, p, EmptyStr))
              <=> SubtreeMatches(store[view.element.bucket], p)

StrictlyIncreasing(keys) == \A i \in 1..(Len(keys) - 1) : LexLess(keys[i], keys[i + 1])

\* The nodes of an entry as the claim orders them, position by position.
OrderedNodes(bucket, e) ==
    LET np == Len(e.prefixes)
        no == Len(e.objects)
        more == e.isTruncated /\ e.continuationToken # EmptyStr
    IN  [i \in 1..(np + no + (IF more THEN 1 ELSE 0)) |->
            IF i <= np THEN Node("prefix", bucket, e.prefixes[i], EmptyStr)
            ELSE IF i <= np + no THEN Node("object", bucket, e.objects[i - np], EmptyStr)
            ELSE Node("loadMore", bucket, EmptyStr, e.continuationToken)]

\* C12: with no filter active, getChildren of a bucket or prefix scope returns the
\* prefix nodes in listing order, then the object nodes in listing order, then one
\* load-more node with the token exactly when the entry is truncated and has a
\* token; built from a fresh listing, the result is what the entry that listing left
\* in the cache gives, so a later request served from the cache returns the same.
C12_NodesInListingOrder ==
    (view.op = "getChildren" /\ view.message = "none" /\ ~view.filterActive)
    => /\ CacheHas(cache, view.element.bucket, view.element.key)
       /\ LET e == CacheGet(cache, view.element.bucket, view.element.key)
          IN  /\ view.shown = OrderedNodes(view.element.bucket, e)
              /\ StrictlyIncreasing(e.prefixes)
              /\ StrictlyIncreasing(e.objects)
              /\ view.fetched
                 => e = FreshEntry(store, view.element.bucket, view.element.key)

\* A scope with folders, objects and a further page has been shown from the cache.
C12_Witness ==
    /\ view.op = "getChildren" /\ view.message = "none" /\ ~view.filterActive
    /\ ~view.fetched
    /\ Len(view.shown) >= 3
    /\ view.shown[1].type = "prefix"
    /\ view.shown[Len(view.shown)].type = "loadMore"
    /\ \E j \in 2..(Len(view.shown) - 1) : view.shown[j].type = "object"

\* The parent scope of a prefix node's scope: the prefix without its last segment.
ParentScope(bucket, prefix) ==
    Scope(bucket, LET parts == SelectSeq(Split(prefix), NonEmptyPart)
                  IN  IF Len(parts) <= 1 THEN EmptyStr
                      ELSE Join(DropLast(parts)) \o <<Slash>>)

\* C14: refresh(prefix node) removes from the cache the scope of that node and no
\* other: every other scope cached before is cached after, with its entry;
\* refresh(bucket node) removes every scope of that bucket and no scope of another.
C14_RefreshDropsOnlyItsScope ==
    [][view'.op = "refresh" =>
          /\ view'.element.type = "prefix" =>
                /\ ~CacheHas(cache', view'.element.bucket, view'.element.key)
                /\ \A sc \in DOMAIN cache :
                      sc # ScopeOf(view'.element)
                      => sc \in DOMAIN cache' /\ cache'[sc] = cache[sc]
          /\ view'.element.type = "bucket" =>
                /\ \A sc \in DOMAIN cache' : sc[1] # view'.element.bucket
                /\ \A sc \in DOMAIN cache :
                      sc[1] # view'.element.bucket
                      => sc \in DOMAIN cache' /\ cache'[sc] = cache[sc]
      ]_vars

\* A prefix node has been refreshed while its parent scope and a sibling scope stay
\* cached.
C14_Witness ==
    /\ view.op = "refresh" /\ view.element.type = "prefix"
    /\ ParentScope(view.element.bucket, view.element.key) \in DOMAIN cache
    /\ \E sc \in DOMAIN cache :
          /\ sc[1] = view.element.bucket /\ sc[2] # EmptyStr
          /\ sc # ScopeOf(view.element)
          /\ ParentScope(sc[1], sc[2]) = ParentScope(view.element.bucket, view.element.key)

\* C15 as stated: when expanding a bucket or prefix fails with a "does not exist"
\* error, every other scope of the cache that was cached before is cached after.
C15_NotFoundDropsOnlyExpandedScope ==
    [][(view'.op = "getChildren" /\ view'.message # "none" /\ SaysNotExist(view'.raw))
       => \A sc \in DOMAIN cache : sc # ScopeOf(view'.element) => sc \in DOMAIN cache'
      ]_vars

\* C16 as stated: when expanding a scope fails because the service answered 401 or
\* 403, getChildren offers the reauthentication action.
C16_AuthFailureOffersReauthentication ==
    (view.op = "getChildren" /\ view.message # "none" /\ view.raw.meta \in {401, 403})
    => view.message = "auth"

-----------------------------------------------------------------------------
(* Properties of the create-folder and upload commands (SpecMutate).          *)

\* C13 as stated: after a mutating command has completed successfully, no scope
\* whose remote listing the command changed is still cached, so that every scope
\* the cache holds is the listing of the bucket as it now is.
C13_NoCachedScopePredatesMutation ==
    (command.pc = "done" /\ command.count = 1)
    => \A sc \in DOMAIN cache : cache[sc] = FreshEntry(store, sc[1], sc[2])

\* C20: in the folder upload a cancellation request is acted on only at the top of a
\* loop pass, between two files, never while an upload call is in flight; at that
\* point it is always acted on; after it no further file is uploaded; and the
\* command ends with the information message "cancelled", not the error message of
\* a failed upload.
C20_CancellationAtUnitBoundary ==
    [][ /\ (command'.pc = "cancelled" /\ command.pc # "cancelled")
           => /\ command.pc = "boundary" /\ command.cancelRequested
              /\ command.started = command.uploadedCount
              /\ command'.started = command.started
              /\ store' = store
        /\ (command.pc = "boundary" /\ command.cancelRequested /\ command' # command)
           => command'.pc = "cancelled"
        /\ (command.pc = "inflight" /\ command' # command)
           => command'.pc \in {"inflight", "boundary", "done", "failed"}
        /\ command.pc = "cancelled"
           => store' = store /\ (command' = command \/ command'.pc = "idle")
        /\ command'.pc = "cancelled" => command'.message.kind = "information"
        /\ command'.pc = "failed" => command'.message.kind = "error"
      ]_vars

\* The upload of a folder of several files was cancelled after its first file: the
\* request came no later than the end of that file's upload and was acted on before
\* the second.
C20_Witness ==
    /\ command.kind = "uploadFolder" /\ command.pc = "cancelled"
    /\ command.uploadedCount = 1 /\ Len(command.files) = 2
    /\ HasKey(store[command.bucket],
              s3Key(command.prefix, command.folderName, command.files[1]))
    /\ ~HasKey(store[command.bucket],
               s3Key(command.prefix, command.folderName, command.files[2]))

-----------------------------------------------------------------------------
(* Properties of listAllObjectsRecursive (specification SpecList).            *)

\* The keys of the bucket that lie under the prefix, the key that is the prefix
\* itself (the folder's own marker) left out, in key order.
KeysUnder(objs, prefix) ==
    LET Under(k) == StartsWith(k, prefix) /\ k # prefix
    IN  SelectSeq([i \in 1..Len(objs) |-> objs[i].key], Under)

\* C17: listAllObjectsRecursive(bucket, prefix) without maxObjects returns every key
\* under the prefix, over all pages, each as the key it is (no grouping into common
\* prefixes), the nested folder markers among them; it is what the bulk operations
\* enumerate.
C17_ListsEveryKeyUnderPrefix ==
    (lister.pc = "done" /\ lister.maxObjects = NoMax)
    => /\ lister.allObjects = KeysUnder(store[lister.bucket], lister.prefix)
       /\ \A i \in 1..Len(store[lister.bucket]) :
             LET k == store[lister.bucket][i].key
             IN  (EndsWithSlash(k) /\ StartsWith(k, lister.prefix) /\ k # lister.prefix)
                 => \E n \in 1..Len(lister.allObjects) : lister.allObjects[n] = k
       /\ lister.allObjects
             = listAllObjectsRecursive(store[lister.bucket], lister.prefix, NoMax)

\* A listing of two pages has returned with a nested folder marker in it.
C17_Witness ==
    /\ lister.pc = "done" /\ lister.maxObjects = NoMax /\ lister.pages >= 2
    /\ \E n \in 1..Len(lister.allObjects) : EndsWithSlash(lister.allObjects[n])

IsPrefixOfSeq(a, b) == Len(a) <= Len(b) /\ SubSeq(b, 1, Len(a)) = a

\* C18: listAllObjectsRecursive ends with the first page that carries no continuation
\* token and goes on only with one; what it has accumulated never shrinks from one
\* page to the next; it changes neither the buckets nor the cache; and a call with
\* the arguments of the call before it returns the same key sequence.
C18_ListingTerminatesAndIsIdempotent ==
    [][ /\ (lister.pc = "paging" /\ lister'.pages = lister.pages + 1)
           => /\ IsPrefixOfSeq(lister.allObjects, lister'.allObjects)
              /\ lister'.continuationToken = EmptyStr => lister'.pc = "done"
              /\ lister'.pc = "paging" => lister'.continuationToken # EmptyStr
        /\ lister' # lister => store' = store /\ cache' = cache
        /\ (lister'.pc = "done" /\ lister'.earlier # << >>
            /\ lister'.earlier[1].args = ListArgs(lister'))
           => lister'.allObjects = lister'.earlier[1].result
      ]_vars

\* A listing of two pages has returned a second time for the same arguments.
C18_Witness ==
    /\ lister.pc = "done" /\ lister.pages >= 2 /\ Len(lister.allObjects) > 0
    /\ lister.earlier # << >>
    /\ lister.earlier[1].args = ListArgs(lister)
    /\ lister.earlier[1].result = lister.allObjects

-----------------------------------------------------------------------------
(* Progress of the bulk operations (specification Spec).                      *)

IsProgress(e) == e.t = "progress"

\* The progress reports of a log that carry an increment.
Reports(log) == SelectSeq(log, IsProgress)

\* Every call of the processing loop comes after the report of its unit.
ReportedBeforeCall(log) ==
    \A p \in 1..Len(log) :
        (IsCall(log[p]) /\ log[p].phase = "processing")
        => \E q \in 1..(p - 1) : IsProgress(log[q]) /\ log[q].unit = log[p].unit

\* The increments, each (1 / total) * 100, add up to 100: there are as many reports
\* as units, one per unit, and at least one.
IncrementsSumToFull(log) ==
    LET reports == Reports(log)
    IN  /\ Len(reports) > 0
        /\ \A n \in 1..Len(reports) :
              reports[n].total = Len(reports) /\ reports[n].unit = n

\* C19: in folder delete, paste, move and rename the report of a unit is issued before
\* the unit's remote call, and on a run without failures the increments reported add
\* up to 100%.
C19_ProgressBeforeUnitsSumsToFull ==
    ReportsUnits(run.kind)
    => /\ ReportedBeforeCall(run.log)
       /\ (run.pc = "done" /\ run.failures = 0) => IncrementsSumToFull(run.log)

-----------------------------------------------------------------------------
(* Properties of the S3 client cache (specification SpecClient).              *)

\* A getS3Client call has just been made (and has changed what the last call was).
CalledGetS3Client == client'.op = "getS3Client" /\ client' # client

\* The endpoint, region, credentials and forcePathStyle of two settings agree.
SameConnection(a, b) ==
    \A field \in {"endpointUrl", "region", "accessKeyId", "secretAccessKey", "forcePathStyle"} :
        a[field] = b[field]

\* C21: a getS3Client call that returns, made with forceNew = false while the endpoint,
\* region, credentials and forcePathStyle are those of the call that returned before it
\* and the cache was not cleared in between, returns that call's instance; with
\* forceNew = true, after clearClientCache (or before any call), or with one of those
\* settings changed, it returns an instance that did not exist before.
C21_SameClientUnlessForcedClearedOrChanged ==
    [][ (CalledGetS3Client /\ client'.thrown = << >>)
        => IF /\ ~client'.forceNew
              /\ client.sinceClear
              /\ SameConnection(client.config, client.earlierConfig)
           THEN client'.result = client.earlierResult
           ELSE client'.result > client.created
      ]_vars

\* A third instance was made because the region changed, and a later call with another
\* preview size got that same instance.
C21_Witness ==
    /\ client.op = "getS3Client" /\ ~client.forceNew /\ client.thrown = << >>
    /\ client.created = 3 /\ client.result = 3
    /\ client.config.region # DefaultConfig.region
    /\ client.config.maxPreviewSizeBytes # client.cachedConfig.maxPreviewSizeBytes

\* The endpoint is empty or no valid https URL, or a credential is empty.
InvalidSettings(config) ==
    \/ config.endpointUrl = ""
    \/ URLProtocol(config.endpointUrl) # "https:"
    \/ config.accessKeyId = ""
    \/ config.secretAccessKey = ""

\* C22: getS3Client throws "Configuration invalid" exactly when the endpoint is empty
\* or not a valid https URL or a credential is empty, and then leaves cachedClient and
\* cachedConfig as they were.
C22_InvalidConfigurationThrowsAndKeepsCache ==
    [][ CalledGetS3Client
        => /\ (client'.thrown # << >>) <=> InvalidSettings(client.config)
           /\ client'.thrown # << >>
              => /\ client'.cachedClient = client.cachedClient
                 /\ client'.cachedConfig = client.cachedConfig
                 /\ client'.result = NoClient
      ]_vars

\* A call threw for an http endpoint while an instance was cached.
C22_Witness ==
    /\ client.op = "getS3Client" /\ client.thrown # << >>
    /\ client.config.endpointUrl = "http://h"
    /\ client.cachedClient # NoClient

-----------------------------------------------------------------------------
(* Properties of two commands in flight (specification SpecRace).             *)

\* C23: no two scope-mutating operations are in progress on the same (bucket, prefix)
\* scope with their steps interleaved: never are two handlers both between their first
\* call and their return on one source folder.
C23_OneOperationPerScope ==
    ~ /\ Running(run) /\ Running(twin.run)
      /\ run.srcBucket = twin.run.srcBucket /\ run.src = twin.run.src
      /\ Len(run.log) > 0 /\ Len(twin.run.log) > 0

-----------------------------------------------------------------------------
(* Properties of uploadFile (specification SpecUpload).                       *)

IsPartEv(e) == e.t = "part"

PartEvs(log) == SelectSeq(log, IsPartEv)

HasEv(log, t) == \E n \in 1..Len(log) : log[n].t = t

RECURSIVE SumBytes(_)
SumBytes(evs) == IF Len(evs) = 0 THEN 0 ELSE Head(evs).bytes + SumBytes(Tail(evs))

\* C24: a file larger than 100 MB, and no other, is uploaded in parts; the parts are
\* sent one after the other in ascending part number, each after the one before it
\* succeeded; CompleteMultipartUpload is sent only when every part of the file was
\* uploaded; and when a step after the creation of the upload has failed, the last
\* request is AbortMultipartUpload for that upload id and the call throws, whether or
\* not the abort succeeded.
C24_MultipartSequentialCompleteOrAbort ==
    LET log == upload.log
        partEvs == PartEvs(log)
    IN  /\ HasEv(log, "create") => upload.size > MULTIPART_THRESHOLD
        /\ HasEv(log, "put") => upload.size <= MULTIPART_THRESHOLD
        /\ \A n \in 1..Len(partEvs) :
              /\ partEvs[n].part = n
              /\ partEvs[n].uploadId = TheUploadId
              /\ n < Len(partEvs) => partEvs[n].ok
        /\ \A n \in 1..Len(log) :
              log[n].t = "complete"
              => /\ \A k \in 1..Len(partEvs) : partEvs[k].ok
                 /\ Len(partEvs) = n - 2
                 /\ Len(partEvs) * PART_SIZE >= upload.size
                 /\ SumBytes(partEvs) = upload.size
        /\ (upload.pc \in {"done", "failed"} /\ upload.thrown \notin {"none", "put", "create"})
           => /\ upload.pc = "failed"
              /\ log[Len(log)].t = "abort"
              /\ log[Len(log)].uploadId = log[1].uploadId
              /\ log[1].t = "create" /\ log[1].ok
        /\ upload.pc = "done" => ~HasEv(log, "abort")

\* A file of eleven parts and one byte: the twelfth part was uploaded, the completion
\* failed, the abort failed too, and the call has thrown.
C24_Witness ==
    /\ upload.pc = "failed" /\ upload.thrown = "complete"
    /\ Len(PartEvs(upload.log)) = 12
    /\ upload.log[Len(upload.log)].t = "abort" /\ ~upload.log[Len(upload.log)].ok

-----------------------------------------------------------------------------
(* Properties of the filtered root (specification SpecRoot).                  *)

\* C25: with a filter active, getChildren at the root shows every bucket whose name
\* contains the filter text, whatever the case of its letters, and every bucket in
\* which the path of some folder or the key of some object contains it.
C25_RootShowsMatchingBuckets ==
    (view.op = "getRoot" /\ view.filterActive)
    => \A b \in Buckets :
          (fuzzyMatch(view.filterText, BucketName(b)) \/ SubtreeMatches(store[b], EmptyStr))
          => IsShown(Node("bucket", b, EmptyStr, EmptyStr))

-----------------------------------------------------------------------------
(* Properties of withRetry (specification SpecRetry).                         *)

\* C26: whatever the wrapped operation answers, withRetry invokes it at most
\* maxRetries + 1 times; a successful answer is the last one and is what withRetry
\* returns; when withRetry gives up it throws the error of its most recent attempt;
\* the delay after failed attempt n, counted from 0, is baseDelay * 2^n, and the
\* attempt after which withRetry gives up or returns is followed by no delay.
C26_RetryBudgetBackoffAndLastError ==
    LET attempts == Len(retry.responses)
    IN  /\ attempts <= maxRetries + 1
        /\ \A n \in 1..(attempts - 1) : retry.responses[n] # OkResponse
        /\ retry.pc = "returned" => attempts > 0 /\ retry.responses[attempts] = OkResponse
        /\ retry.pc = "raised"
           => /\ attempts > 0
              /\ retry.responses[attempts] # OkResponse
              /\ retry.lastError = WrapError(retry.op, retry.responses[attempts])
        /\ \A n \in 1..Len(retry.delays) : retry.delays[n] = baseDelay * 2 ^ (n - 1)
        /\ retry.pc \in {"returned", "raised"} => Len(retry.delays) = attempts - 1
        /\ retry.pc = "sleep" => Len(retry.delays) = attempts
        /\ retry.pc = "invoke" => Len(retry.delays) = attempts /\ retry.attempt = attempts

\* The operation failed four times with retryable errors: three delays were taken and
\* the fourth error was thrown.
C26_Witness ==
    /\ retry.pc = "raised"
    /\ Len(retry.responses) = maxRetries + 1
    /\ retry.delays = <<1000, 2000, 4000>>
    /\ retry.responses[3] # retry.responses[4]

-----------------------------------------------------------------------------
(* Failures and markers in the folder operations (specification Spec).        *)

\* The handlers that copy or move a folder object by object.
FolderCopyKinds == {"moveFolder", "rename", "pasteCut", "pasteCopy", "drop"}

\* The copy or the delete of one object of the loop was rejected.
IsFailedUnit(e) == IsCall(e) /\ e.phase = "processing" /\ ~e.ok

\* C27: when the copy or the delete of one object fails during a folder copy, move or
\* rename, that call is the last one the operation issues and the operation has
\* failed: no later object is copied or deleted and the cleanup is not run.
C27_ObjectFailureStopsOperation ==
    run.kind \in FolderCopyKinds
    => \A p \in 1..Len(run.log) :
          IsFailedUnit(run.log[p]) => p = Len(run.log) /\ run.pc = "failed"

\* A cut-and-paste of a folder of several objects failed at the delete of its first
\* object.
C27_Witness ==
    /\ run.kind = "pasteCut" /\ run.pc = "failed"
    /\ Len(run.objects) > 1
    /\ Len(run.log) > 0
    /\ IsFailedUnit(run.log[Len(run.log)])
    /\ run.log[Len(run.log)].t = "delete" /\ run.log[Len(run.log)].unit = 1

\* A marker deletion of the cleanup phase: one of the remaining markers, or the main
\* folder marker.
IsCleanupDeletion(e) == e.t = "delete" /\ e.phase \in {"cleanup", "main"}

\* The markers the cleanup listing found.
RemainingMarkers(r) == {r.remaining[n] : n \in {k \in 1..Len(r.remaining) : EndsWithSlash(r.remaining[k])}}

\* C28: in the cleanup phase of a folder move or rename a failed marker deletion does
\* not fail the operation: the operation never stops at one, and when it has ended
\* every marker the cleanup listing found and the main folder marker were attempted.
C28_CleanupFailuresAreSwallowed ==
    (run.kind \in FolderCopyKinds /\ DeletesSource(run.kind))
    => /\ (run.pc = "failed" /\ Len(run.log) > 0)
          => ~IsCleanupDeletion(run.log[Len(run.log)])
       /\ (\E p \in 1..Len(run.log) : IsCleanupDeletion(run.log[p]) /\ ~run.log[p].ok)
          => run.pc \in {"cleanup", "main", "done"}
       /\ (run.pc = "done" /\ \E p \in 1..Len(run.log) : run.log[p].phase = "cleanup")
          => /\ \A key \in RemainingMarkers(run) :
                   \E p \in 1..Len(run.log) :
                       IsCleanupDeletion(run.log[p]) /\ run.log[p].key = key
             /\ run.log[Len(run.log)].phase = "main"

\* A move of a folder into itself in which the deletion of a remaining marker failed:
\* a later marker deletion was made all the same and the move has ended.
C28_Witness ==
    /\ run.kind = "moveFolder" /\ run.pc = "done"
    /\ \E p \in 1..Len(run.log) :
          /\ run.log[p].phase = "cleanup" /\ run.log[p].t = "delete" /\ ~run.log[p].ok
          /\ \E q \in (p + 1)..Len(run.log) :
                IsCleanupDeletion(run.log[q]) /\ run.log[q].ok

\* C29: when a folder copy, move or rename of a folder with objects has ended after
\* processing all of them, it has asked for the creation of the destination folder
\* marker (the key dstPrefix itself) after the last object; this for paste, the Move
\* command, rename and drag-and-drop alike.
C29_DestinationMarkerCreated ==
    (run.kind \in FolderCopyKinds /\ run.pc = "done" /\ Len(run.objects) > 0)
    => \E p \in 1..Len(run.log) :
          /\ run.log[p].t = "put"
          /\ run.log[p].bucket = run.dstBucket
          /\ run.log[p].key = folderKey(run.dst)
          /\ \A q \in 1..Len(run.log) : run.log[q].phase = "processing" => q < p

\* C30: deleting a folder whose recursive listing is empty issues one deletion, that of
\* the folder marker, and ends in success whatever that deletion answers.
C30_EmptyFolderDeleteToleratesFailure ==
    (/\ run.kind = "delete" /\ run.pc \in {"done", "failed"}
     /\ Len(run.log) > 0 /\ run.log[1].ok /\ Len(run.objects) = 0)
    => /\ run.pc = "done"
       /\ Len(Calls(run.log)) = 2
       /\ run.log[2].t = "delete" /\ run.log[2].key = run.src

-----------------------------------------------------------------------------
(* Loading the next page of a scope (SpecView).                               *)

\* The cache after one page was appended to the entry of the scope.
PageAppended(c, bucket, prefix, page) ==
    [c EXCEPT ![Scope(bucket, prefix)] =
        CacheEntry(c[Scope(bucket, prefix)].objects \o page.objects,
                   c[Scope(bucket, prefix)].prefixes \o page.prefixes,
                   page.isTruncated, page.continuationToken)]

\* C31: loadMore(node) makes exactly one listing request, with the node's
\* continuation token; when it succeeds the returned page is appended to the cache
\* entry of the node's scope, the entry's truncation flag and token become the
\* page's, and a change of the whole tree is fired; when it fails the cache is as it
\* was and nothing is fired.
C31_LoadMoreAppendsAndRefreshesAll ==
    [][view'.op = "loadMore" =>
          /\ view'.tokens = <<LoadMoreOf(view.shown).token>>
          /\ IF view'.message = "none"
             THEN /\ CacheHas(cache, view.element.bucket, view.element.key)
                  /\ cache' = PageAppended(cache, view.element.bucket, view.element.key,
                                           listObjects(store[view.element.bucket],
                                                       view.element.key,
                                                       LoadMoreOf(view.shown).token))
                  /\ view'.fired = "all"
             ELSE cache' = cache /\ view'.fired = "none"]_vars

\* A second page that holds a folder and is the last one was appended to a first
\* page of objects and folders.
C31_Witness ==
    /\ view.op = "loadMore"
    /\ view.message = "none"
    /\ view.fired = "all"
    /\ CacheHas(cache, view.element.bucket, view.element.key)
    /\ ~cache[Scope(view.element.bucket, view.element.key)].isTruncated
    /\ Len(cache[Scope(view.element.bucket, view.element.key)].prefixes) >= 2
    /\ Len(cache[Scope(view.element.bucket, view.element.key)].objects) >= 1
-----------------------------------------------------------------------------
(* The limit of listAllObjectsRecursive (specification SpecList).             *)

-----------------------------------------------------------------------------
(* Moves and the data they move (specification Spec).                         *)

\* C33: at no point of a move (of a file, of a folder, by the Move command, by
\* rename, by paste after cut or by drop) is the data of an object it was started on
\* at neither the object's source key nor its destination key; so a move to the
\* place the item is already at leaves the item there.
C33_MoveNeverLosesData ==
    (run.kind \in MoveKinds /\ run.starts = 1)
    => \A i \in 1..Len(run.orig) : Kept(run, store, run.orig[i])

\* C34: no call of a copy, move or rename replaces the content of a key that is
\* already present in the bucket it writes to.
C34_NeverOverwritesDestination ==
    [][run.kind \notin {"none", "delete"}
       => \A b \in Buckets :
             \A i \in 1..Len(store[b]) :
                 HasKey(store'[b], store[b][i].key)
                    => DataOf(store'[b], store[b][i].key) = store[b][i].data]_vars
-----------------------------------------------------------------------------
(* The cache after a bulk operation that stopped half way (SpecMutate).       *)

\* C35: when a folder upload has failed or was cancelled after at least one of its
\* files was uploaded, no scope the cache holds predates the upload: every cached
\* scope is the listing of the bucket as it now is.
C35_PartialChangeInvalidatesCache ==
    (command.pc \in {"failed", "cancelled"} /\ command.uploadedCount >= 1
        /\ command.count = 1)
    => \A sc \in DOMAIN cache : cache[sc] = FreshEntry(store, sc[1], sc[2])
-----------------------------------------------------------------------------
(* The cache under overlapping tree requests (specification SpecPages).       *)

\* The most pages a scope of the inputs has.
MaxPages == 3

\* The cache entry of a scope after its first k pages were fetched in order.
RECURSIVE EntryAfter(_, _, _)
EntryAfter(objs, prefix, k) ==
    IF k <= 1 THEN FreshEntry([b1 |-> objs], "b1", prefix)
    ELSE LET WithPage(e, page) ==
                 CacheEntry(e.objects \o page.objects, e.prefixes \o page.prefixes,
                            page.isTruncated, page.continuationToken)
             More(e) ==
                 IF e.isTruncated
                 THEN WithPage(e, listObjects(objs, prefix, e.continuationToken))
                 ELSE e
         IN  More(EntryAfter(objs, prefix, k - 1))

NoneTwice(q) == Cardinality({q[i] : i \in 1..Len(q)}) = Len(q)

\* C36: whatever the interleaving of getChildren, loadMore and refresh, a cached
\* entry holds no object key and no prefix twice, and is the concatenation of the
\* first pages of its scope's listing in request order.
C36_CacheIsPagesInOrder ==
    \A sc \in DOMAIN cache :
        /\ NoneTwice(cache[sc].objects)
        /\ NoneTwice(cache[sc].prefixes)
        /\ \E k \in 1..MaxPages : cache[sc] = EntryAfter(store[sc[1]], sc[2], k)
-----------------------------------------------------------------------------
(* The clipboard under Copy, Cut and Paste (specification SpecClip).          *)

\* The source keys a paste handler of a cut item has copied so far.
MovedKeys(r) ==
    IF r.kind \in {"moveFile", "pasteCut"}
    THEN {r.log[n].key : n \in {m \in 1..Len(r.log) : r.log[m].t = "copy" /\ r.log[m].ok}}
    ELSE {}

\* C37: when a Paste returns, an item that is on the clipboard and is not the item
\* that was pasted stays on the clipboard; and no object of a cut item is moved by
\* two Paste commands.
C37_PasteClearsOnlyPastedItem ==
    [][ /\ (run.pc = "done" /\ run'.pc = "returned" /\ clipboard # PastedItem(run))
           => clipboard' = clipboard
        /\ (twin.run.pc = "done" /\ twin'.run.pc = "returned"
            /\ clipboard # PastedItem(twin.run))
           => clipboard' = clipboard
        /\ MovedKeys(run') \cap MovedKeys(twin'.run) = {}
      ]_vars
-----------------------------------------------------------------------------
(* listAllObjectsRecursive under retries (specification SpecList).            *)

\* C38: what listAllObjectsRecursive has accumulated, and so what it returns, never
\* holds a key twice, also when a page request failed after earlier pages and
\* withRetry ran the enumeration again: the new run starts without continuation
\* token and with an empty accumulator.
C38_RetriedListingHasNoDuplicates ==
    [][ /\ NoneTwice(lister'.allObjects)
        /\ (lister.pc = "paging" /\ lister'.attempt = lister.attempt + 1)
           => /\ lister'.allObjects = << >>
              /\ lister'.continuationToken = EmptyStr
              /\ lister'.pc = "paging"
      ]_vars

\* A listing of two pages has returned after a run that failed behind its first page.
C38_Witness ==
    /\ lister.pc = "done"
    /\ lister.attempt >= 1 /\ lister.failedAfter >= 1
    /\ lister.pages >= 2
    /\ Len(lister.allObjects) > MAX_KEYS_PER_REQUEST
-----------------------------------------------------------------------------
(* The life of the S3 clients (specification SpecClient).                     *)

\* The clients created so far on which destroy() was not called.
Undestroyed == (1..client.created) \ client.destroyed

\* C39: at most one client that was not destroyed exists at any time (a client that
\* getS3Client replaces has been destroyed), and cachedClient and cachedConfig are
\* both set or both null.
C39_AtMostOneLiveClient ==
    /\ Cardinality(Undestroyed) <= 1
    /\ (client.cachedClient = NoClient) <=> (client.cachedConfig = NoConfig)
-----------------------------------------------------------------------------
(* What the cache holds under a filter (specification SpecView).              *)

\* C40: whatever the filter was when getChildren or loadMore stored it, a cache
\* entry is the complete listing of its scope's first pages: every object and every
\* prefix of those pages, whether the filter shows them or not.
C40_CacheHoldsUnfilteredPages ==
    view.op \in {"getChildren", "loadMore"}
    => \A sc \in DOMAIN cache :
           \E k \in 1..MaxPages : cache[sc] = EntryAfter(store[sc[1]], sc[2], k)

\* Under a filter a folder was expanded: an object of its listing is not among the
\* nodes shown and is in the cache entry.
C40_Witness ==
    /\ view.op = "getChildren" /\ view.filterActive /\ view.fetched
    /\ CacheHas(cache, view.element.bucket, view.element.key)
    /\ \E i \in 1..Len(cache[Scope(view.element.bucket, view.element.key)].objects) :
           ~matchesFilter(Node("object", view.element.bucket,
                               cache[Scope(view.element.bucket, view.element.key)].objects[i],
                               EmptyStr))
====
